---- MODULE Spec2Model ----
(***************************************************************************)
(* GlobeLingo (INFS3201-Project-Group1): the persistence layer             *)
(* (persistence.js), the business layer (business.js) and the HTTP routes  *)
(* of the final presentation layer, as a state machine over the document   *)
(* store.  A route handler is an operator from the store and the request   *)
(* to the store it leaves and the response it gives, and one atomic        *)
(* action; time is the clock of the server, in milliseconds.               *)
(* usedResetKeys is a history variable: the reset keys with which a        *)
(* password has been reset; sendsLeft is the number of messages the        *)
(* behaviour may still send; pending holds the requests whose handler is   *)
(* suspended at a storage call, where the handlers of other requests run;  *)
(* connection is the module state of persistence.js: whether client is     *)
(* set, how many clients have been created, whether the collection         *)
(* handles are resolved.                                                   *)
(***************************************************************************)
EXTENDS Integers, Sequences, FiniteSets, TLC

VARIABLES users, sessions, messages, badges, now, uuidCount, usedResetKeys, sendsLeft, pending, connection

vars == <<users, sessions, messages, badges, now, uuidCount, usedResetKeys, sendsLeft, pending, connection>>

-----------------------------------------------------------------------------
(* Bounds of the model *)

\* number of values crypto.randomUUID() hands out in one behaviour
MaxUuid == 3
\* number of clock steps in one behaviour
MaxTicks == 3
\* number of messages sent in one behaviour that starts from the empty store
MaxMessages == 1
\* number of messages sent in one behaviour that starts from two logged-in users
MaxChat == 2
\* number of requests whose handlers are suspended at the same time
MaxPending == 2

\* one clock step, in milliseconds (the lifetime of a key)
TickMs == 5 * 60 * 1000

-----------------------------------------------------------------------------
(* JavaScript values *)

\* a missing field, a missing request parameter
Undefined == 0
\* the result of a lookup that finds nothing
Null == 0

Min(S) == CHOOSE x \in S : \A y \in S : x <= y
Max(S) == CHOOSE x \in S : \A y \in S : x >= y

\* String.prototype.trim and the regex class \s
Whitespace == {" ", "\t", "\n", "\r", "\f"}
\* the characters the regex dot does not match
LineTerminators == {"\n", "\r"}

trim(s) ==
    LET keep == {i \in 1..Len(s) : s[i] \notin Whitespace}
    IN  IF keep = {} THEN <<>> ELSE SubSeq(s, Min(keep), Max(keep))

-----------------------------------------------------------------------------
(* Request inputs: strings are sequences of one-character strings *)

EmailA == <<"a", "@", "x", ".", "c">>
EmailB == <<"b", "@", "x", ".", "c">>
EmailBad == <<"a", "x", ".", "c">>
Emails == {EmailA, EmailB, EmailBad}

Usernames == {"alice", "bob"}

\* registrations that do not interleave keep usernames unique, so the store
\* holds at most this many user documents; interleaved ones are held to it
MaxUsers == Cardinality(Usernames)

PwStrong == <<"A", "b", "c", "d", "e", "f", "1", "!">>
PwStrongSp == PwStrong \o <<" ">>
PwWeak == <<"a", "b", "c">>
Passwords == {PwStrong, PwStrongSp, PwWeak}
\* a password field of a request body that holds a line feed
PwNewline == <<"A", "b", "c", "d", "\n", "e", "f", "1", "!">>
\* the password field of the sign-up form
SignUpPasswords == {PwStrong, PwWeak}

\* the language selections after the handler's filter of blank entries
LanguageArrays == {<<>>, <<"English">>}

\* req.files.profilePicture: none, or a file with a mimetype and a size
NoPicture == [present |-> FALSE, mimetype |-> "", size |-> 0]
PicturePng == [present |-> TRUE, mimetype |-> "image/png", size |-> 1024]
PictureGif == [present |-> TRUE, mimetype |-> "image/gif", size |-> 1024]
Pictures == {NoPicture, PicturePng, PictureGif}

\* a sessionKey cookie, a key or token of a link or form: absent, or any value
UuidInputs == 0..MaxUuid

\* a :receiverId that is no 24-digit hexadecimal string
MalformedId == MaxUsers + 1
\* route parameters: the ids the store can assign, and a malformed one
IdInputs == 1..(MaxUsers + 1)

\* crypto.randomBytes(4).toString('hex')
Salts == {"5f3a9c1e"}

-----------------------------------------------------------------------------
(* Messages and redirect targets of the routes *)

MsgInvalidLogin == "Invalid email or password."
MsgNotVerified == "Email is not verified. Please verify your email before logging in."
MsgLoginOk == "Login successful."
MsgVerifyFailed == "Verification failed. The link may have expired or is invalid."
MsgVerified == "Your email has been verified successfully. Please log in with your credentials."
MsgWeakPassword == "Password must be at least 8 characters, include a number, a special character, an uppercase and lowercase letter."
MsgMismatch == "The passwords you entered do not match. Please ensure both password fields are the same."
MsgBadResetKey == "Your reset link is invalid or has expired. Please request a new link."
MsgResetOk == "Password reset successful. Please log in with your new password."
MsgBadEmail == "Invalid or already registered email address."
MsgUsernameTaken == "Username is already taken. Please choose a different one."
MsgNoKnown == "Please select at least one language you speak fluently."
MsgNoLearning == "Please select at least one language you would like to learn."
MsgBadFileType == "Invalid file type. Only JPEG, JPG and PNG are allowed."
MsgFileTooLarge == "File size too large. Please upload an image smaller than 5MB."
MsgRegistered == "Registration successful. A verification email has been sent to your inbox."
MsgMailFailed == "mail relay error"
MsgPleaseLogIn == "Please log in."
MsgSessionExpired == "Your session has expired. Please log in again."
MsgWelcome == "Welcome to GlobeLingo!"
MsgNotRegistered == "Invalid or not registered email address."
MsgResetSent == "Password reset email sent. Please check your inbox."
MsgUnexpected == "An unexpected error occurred. Please try again."
MsgLoggedOut == "You have been logged out."
MsgConversationError == "An error occurred while loading the conversation."
MsgSendError == "An error occurred while sending the message."

-----------------------------------------------------------------------------
(* The document store: collections are sequences in insertion order, the   *)
(* _id the store assigns to a user is its position in the collection       *)

\* the value of a document at a dotted path such as "resetKey.value"
valueAt(doc, path) ==
    IF Len(path) = 1 THEN doc[path[1]] ELSE doc[path[1]][path[2]]

\* collection.findOne({ [path]: value }): the position of the first matching
\* document, or Null
findOne(coll, path, value) ==
    LET matches == {i \in 1..Len(coll) : valueAt(coll[i], path) = value}
    IN  IF matches = {} THEN Null ELSE Min(matches)

\* new ObjectId(id) succeeds on a 24-digit hexadecimal string only
validObjectId(id) == id \in 1..MaxUsers

\* a user document without verificationKey or resetKey carries NoKey there
NoKey == [value |-> Undefined, expiry |-> Undefined]

KeyTypes == {"verification", "reset"}
\* the field `${type}Key`
KeyField(type) == type \o "Key"

\* session.data without a field carries Undefined there
NoData == [userId |-> Undefined, csrfToken |-> Undefined]
Some(d) == [some |-> TRUE, data |-> d]
None == [some |-> FALSE, data |-> NoData]

getUserById(us, userId) ==
    IF validObjectId(userId) /\ userId <= Len(us) THEN userId ELSE Null

getUserByEmail(us, email) == findOne(us, <<"email">>, email)

getUserByUsername(us, username) == findOne(us, <<"username">>, username)

\* users.updateOne({ email }, { $set: { [field]: value } })
updateUserField(us, email, field, value) ==
    LET i == findOne(us, <<"email">>, email)
    IN  IF i = Null THEN us ELSE [us EXCEPT ![i][field] = value]

\* users.insertOne(user)
\* let client = undefined, and the handles with it
NotConnected == [client |-> FALSE, created |-> 0, handles |-> FALSE]

\* connectDatabase run to its end: a client is created and connected and the
\* handles are resolved, unless client is set already
connectDatabase(c) ==
    IF ~c.client THEN [client |-> TRUE, created |-> c.created + 1, handles |-> TRUE]
    ELSE c

createUser(us, user) == Append(us, user)

\* storeKey that sets the expiry only when the user holds no key of the type
storeKey_keepsExpiry(us, email, key, type, t) ==
    LET i == findOne(us, <<"email">>, email)
        expiry == IF i # Null /\ us[i][KeyField(type)] # NoKey
                  THEN us[i][KeyField(type)].expiry
                  ELSE t + 5 * 60 * 1000
        keyObject == [value |-> key, expiry |-> expiry]
    IN  updateUserField(us, email, KeyField(type), keyObject)

storeKey(us, email, key, type, t) ==
    LET expiry == t + 5 * 60 * 1000
        keyObject == [value |-> key, expiry |-> expiry]
    IN  updateUserField(us, email, KeyField(type), keyObject)

\* getUserByKey without the comparison of the expiry
getUserByKey_noExpiry(us, key, type, t) ==
    LET i == findOne(us, <<KeyField(type), "value">>, key)
    IN  IF i = Null THEN Null
        ELSE IF us[i][KeyField(type)] = NoKey THEN Undefined
        ELSE i

\* the user whose key of the type has the value, if the key has not expired;
\* a query for an undefined value matches a document without the field, and
\* reading its expiry raises a TypeError the function catches (undefined)
getUserByKey(us, key, type, t) ==
    LET i == findOne(us, <<KeyField(type), "value">>, key)
    IN  IF i = Null THEN Null
        ELSE IF us[i][KeyField(type)] = NoKey THEN Undefined
        ELSE IF us[i][KeyField(type)].expiry > t THEN i
        ELSE Null

\* clearKey that removes nothing
clearKey_noUnset(us, email, type) == us

\* users.updateOne({ email }, { $unset: { [`${type}Key`]: "" } })
clearKey(us, email, type) == updateUserField(us, email, KeyField(type), NoKey)

updatePassword(us, email, newPassword) ==
    updateUserField(us, email, "password", newPassword)

saveSession(ss, session) == Append(ss, session)

getSession(ss, key, t) ==
    LET i == findOne(ss, <<"sessionKey">>, key)
    IN  IF i = Null THEN None
        ELSE IF ss[i].expiry < t THEN None
        ELSE Some(ss[i].data)

deleteSession(ss, key) ==
    LET i == findOne(ss, <<"sessionKey">>, key)
    IN  IF i = Null THEN ss
        ELSE SubSeq(ss, 1, i - 1) \o SubSeq(ss, i + 1, Len(ss))

\* { ...session.data, ...data }: a field of data that is present wins
spread(old, data) ==
    [f \in DOMAIN old |-> IF data[f] # Undefined THEN data[f] ELSE old[f]]

\* the merged data is written; the log line after it reads an undeclared
\* name, and the ReferenceError is caught and logged
updateSession(ss, key, data) ==
    LET i == findOne(ss, <<"sessionKey">>, key)
    IN  IF i = Null THEN ss
        ELSE [ss EXCEPT ![i].data = spread(ss[i].data, data)]

\* sessions.updateOne with an upsert: a session document is created when
\* none has the key
updateOne_upsert(ss, key, updatedData) ==
    LET i == findOne(ss, <<"sessionKey">>, key)
    IN  IF i = Null
        THEN Append(ss, [sessionKey |-> key, expiry |-> 0, data |-> updatedData])
        ELSE [ss EXCEPT ![i].data = updatedData]

\* sessions.updateOne({ sessionKey: key }, { $set: { data: updatedData } })
updateOne(ss, key, updatedData) ==
    LET i == findOne(ss, <<"sessionKey">>, key)
    IN  IF i = Null THEN ss ELSE [ss EXCEPT ![i].data = updatedData]

\* addContact with $push in the place of $addToSet
addContact_push(us, userId, contactId) ==
    IF getUserById(us, userId) = Null THEN us
    ELSE [us EXCEPT ![userId].contacts = Append(@, contactId)]

\* getMatchingUsers without the $ne on the _id
getMatchingUsers_withSelf(us, userId) ==
    IF getUserById(us, userId) = Null THEN [some |-> FALSE, list |-> <<>>]
    ELSE LET learningLanguages == us[userId].learningLanguages
             ids == [i \in 1..Len(us) |-> i]
         IN  [some |-> TRUE,
              list |-> SelectSeq(ids, LAMBDA v :
                          \E k \in 1..Len(us[v].knownLanguages) :
                              \E l \in 1..Len(learningLanguages) :
                                  us[v].knownLanguages[k] = learningLanguages[l])]

\* find({ knownLanguages: { $in: learningLanguages }, _id: { $ne: userId } }):
\* the ids of the matching documents in the order of the collection; reading
\* the languages of a user that is not found throws inside the try, and the
\* result is undefined
getMatchingUsers(us, userId) ==
    IF getUserById(us, userId) = Null THEN [some |-> FALSE, list |-> <<>>]
    ELSE LET learningLanguages == us[userId].learningLanguages
             ids == [i \in 1..Len(us) |-> i]
         IN  [some |-> TRUE,
              list |-> SelectSeq(ids, LAMBDA v :
                          /\ v # userId
                          /\ \E k \in 1..Len(us[v].knownLanguages) :
                                 \E l \in 1..Len(learningLanguages) :
                                     us[v].knownLanguages[k] = learningLanguages[l])]

\* $addToSet: the id is appended unless the list holds it; no user with this
\* _id, or a malformed _id, and nothing is written
addContact(us, userId, contactId) ==
    IF getUserById(us, userId) = Null THEN us
    ELSE IF \E i \in 1..Len(us[userId].contacts) : us[userId].contacts[i] = contactId
    THEN us
    ELSE [us EXCEPT ![userId].contacts = Append(@, contactId)]

\* $pull: every occurrence of the id is removed
removeContact(us, userId, contactId) ==
    IF getUserById(us, userId) = Null THEN us
    ELSE [us EXCEPT ![userId].contacts = SelectSeq(@, LAMBDA c : c # contactId)]

\* $addToSet on blockedContacts
blockContact(us, userId, contactId) ==
    IF getUserById(us, userId) = Null THEN us
    ELSE IF \E i \in 1..Len(us[userId].blockedContacts) :
                us[userId].blockedContacts[i] = contactId
    THEN us
    ELSE [us EXCEPT ![userId].blockedContacts = Append(@, contactId)]

\* the two catalog entries initializeBadges seeds
BadgeFirstConversation ==
    [name |-> "First Conversation", imageUrl |-> "/images/badges/firstConversation.png"]
BadgeMessages100 ==
    [name |-> "100 Messages Sent", imageUrl |-> "/images/badges/Messages100.png"]
initializeBadges == <<BadgeFirstConversation, BadgeMessages100>>

getAllBadges(cat) == cat

\* getUserBadges that finds no badge
getUserBadges_none(us, userId) == <<>>

getUserBadges(us, userId) ==
    IF getUserById(us, userId) = Null THEN <<>> ELSE us[userId].badges

\* awardBadge that appends only a badge the user does not hold yet
persistence_awardBadge_ifMissing(us, userId, badge) ==
    IF getUserById(us, userId) = Null THEN us
    ELSE IF \E j \in 1..Len(us[userId].badges) : us[userId].badges[j].name = badge.name
    THEN us
    ELSE [us EXCEPT ![userId].badges = Append(@, badge)]

\* $push of the badge (its award timestamp is left out of the document)
persistence_awardBadge(us, userId, badge) ==
    IF getUserById(us, userId) = Null THEN us
    ELSE [us EXCEPT ![userId].badges = Append(@, badge)]

\* messages.insertOne; a malformed id throws inside the try and nothing is saved
\* (the text and the timestamp are left out: the collection is in time order)
saveMessage(ms, senderId, receiverId) ==
    IF validObjectId(senderId) /\ validObjectId(receiverId)
    THEN Append(ms, [senderId |-> senderId, receiverId |-> receiverId])
    ELSE ms

\* the messages between the two, oldest first; undefined on a malformed id
getConversation(ms, userId1, userId2) ==
    IF validObjectId(userId1) /\ validObjectId(userId2)
    THEN [some |-> TRUE,
          list |-> SelectSeq(ms, LAMBDA m :
                      \/ m.senderId = userId1 /\ m.receiverId = userId2
                      \/ m.senderId = userId2 /\ m.receiverId = userId1)]
    ELSE [some |-> FALSE, list |-> <<>>]

getUserMessages(ms, userId) ==
    IF validObjectId(userId)
    THEN [some |-> TRUE, list |-> SelectSeq(ms, LAMBDA m : m.senderId = userId)]
    ELSE [some |-> FALSE, list |-> <<>>]

-----------------------------------------------------------------------------
(* The business layer *)

Digits == {"0", "1", "2", "3", "4", "5", "6", "7", "8", "9"}
SpecialChars == {"!", "@", "#", "$", "%", "^", "&", "*", "(", ")", ",", ".",
                 "?", "\"", ":", "{", "}", "|", "<", ">"}
UpperCase == {"A", "B", "C", "D", "E", "F", "G", "H", "I", "J", "K", "L", "M",
              "N", "O", "P", "Q", "R", "S", "T", "U", "V", "W", "X", "Y", "Z"}
LowerCase == {"a", "b", "c", "d", "e", "f", "g", "h", "i", "j", "k", "l", "m",
              "n", "o", "p", "q", "r", "s", "t", "u", "v", "w", "x", "y", "z"}

has(s, class) == \E i \in 1..Len(s) : s[i] \in class

\* /^[^\s@]+@[^\s@]+\.[^\s@]+$/
emailRegex(email) ==
    \E a \in 2..Len(email) :
        /\ email[a] = "@"
        /\ \A i \in (1..Len(email)) \ {a} : email[i] \notin Whitespace \cup {"@"}
        /\ \E d \in (a + 2)..(Len(email) - 1) : email[d] = "."

validateEmail(us, email) == emailRegex(email) /\ getUserByEmail(us, email) = Null

checkEmailExists(us, email) == getUserByEmail(us, email) # Null

\* validateUsername that finds no user
validateUsername_findsNone(us, username) == Null

validateUsername(us, username) == getUserByUsername(us, username)

validatePassword(password) ==
    /\ Len(password) >= 8 /\ ~has(password, LineTerminators)
    /\ has(password, Digits)
    /\ has(password, SpecialChars)
    /\ has(password, UpperCase)
    /\ has(password, LowerCase)

validateProfilePicture(profilePicture) ==
    IF ~profilePicture.present THEN [isValid |-> TRUE, message |-> ""]
    ELSE IF profilePicture.mimetype \notin {"image/jpeg", "image/jpg", "image/png"}
    THEN [isValid |-> FALSE, message |-> MsgBadFileType]
    ELSE IF profilePicture.size > 5 * 1024 * 1024
    THEN [isValid |-> FALSE, message |-> MsgFileTooLarge]
    ELSE [isValid |-> TRUE, message |-> ""]

\* the SHA-1 digest of salt + password: the salt has a fixed length, and the
\* digest is taken to be injective
sha1(salt, password) == <<salt, password>>

\* salt + ":" + digest; split(':') gives the two back (neither holds a colon)
createSaltedHash(salt, password) == [salt |-> salt, hash |-> sha1(salt, password)]

\* createUser with a user who is verified from the start
business_createUser_verified(us, username, email, password, knownLanguages, learningLanguages, salt) ==
    createUser(us, [username |-> username,
                    email |-> email,
                    password |-> createSaltedHash(salt, password),
                    knownLanguages |-> knownLanguages,
                    learningLanguages |-> learningLanguages,
                    isVerified |-> TRUE,
                    verificationKey |-> NoKey,
                    resetKey |-> NoKey,
                    contacts |-> <<>>,
                    blockedContacts |-> <<>>,
                    badges |-> <<>>])

\* the validators are tested as function references, which are always truthy;
\* profilePicturePath, which no operation reads back, is left out of the document
business_createUser(us, username, email, password, knownLanguages, learningLanguages, salt) ==
    LET hashedPassword == createSaltedHash(salt, password)
        user == [username |-> username,
                 email |-> email,
                 password |-> hashedPassword,
                 knownLanguages |-> knownLanguages,
                 learningLanguages |-> learningLanguages,
                 isVerified |-> FALSE,
                 verificationKey |-> NoKey,
                 resetKey |-> NoKey,
                 contacts |-> <<>>,
                 blockedContacts |-> <<>>,
                 badges |-> <<>>]
    IN  createUser(us, user)

\* the key is stored before the mail is handed to the relay; a relay failure
\* rejects after the store
sendVerificationEmail(us, email, verificationKey, t, mailOk) ==
    [throws |-> ~mailOk, users |-> storeKey(us, email, verificationKey, "verification", t)]

\* verifyEmail without the clearKey after the update of isVerified
verifyEmail_keepsKey(us, key, t) ==
    LET user == getUserByKey(us, key, "verification", t)
    IN  IF user = Null THEN [throws |-> TRUE, users |-> us]
        ELSE [throws |-> FALSE,
              users |-> updateUserField(us, us[user].email, "isVerified", TRUE)]

verifyEmail(us, key, t) ==
    LET user == getUserByKey(us, key, "verification", t)
    IN  IF user = Null THEN [throws |-> TRUE, users |-> us]
        ELSE [throws |-> FALSE,
              users |-> clearKey(updateUserField(us, us[user].email, "isVerified", TRUE),
                                 us[user].email, "verification")]

\* checkLogin without the test of isVerified
checkLogin_skipsVerified(us, email, password) ==
    LET user == getUserByEmail(us, email)
    IN  IF user = Null
        THEN [isValid |-> FALSE, message |-> MsgInvalidLogin, userId |-> Undefined]
        ELSE IF sha1(us[user].password.salt, password) = us[user].password.hash
        THEN [isValid |-> TRUE, message |-> MsgLoginOk, userId |-> user]
        ELSE [isValid |-> FALSE, message |-> MsgInvalidLogin, userId |-> Undefined]

\* checkLogin that tells a wrong password from an unknown email
checkLogin_tellsMismatch(us, email, password) ==
    LET user == getUserByEmail(us, email)
    IN  IF user = Null
        THEN [isValid |-> FALSE, message |-> MsgInvalidLogin, userId |-> Undefined]
        ELSE IF ~us[user].isVerified
        THEN [isValid |-> FALSE, message |-> MsgNotVerified, userId |-> Undefined]
        ELSE IF sha1(us[user].password.salt, password) = us[user].password.hash
        THEN [isValid |-> TRUE, message |-> MsgLoginOk, userId |-> user]
        ELSE [isValid |-> FALSE, message |-> "Wrong password.", userId |-> Undefined]

\* checkLogin without the comparison of the digests
checkLogin_anyPassword(us, email, password) ==
    LET user == getUserByEmail(us, email)
    IN  IF user = Null
        THEN [isValid |-> FALSE, message |-> MsgInvalidLogin, userId |-> Undefined]
        ELSE IF ~us[user].isVerified
        THEN [isValid |-> FALSE, message |-> MsgNotVerified, userId |-> Undefined]
        ELSE [isValid |-> TRUE, message |-> MsgLoginOk, userId |-> user]

checkLogin(us, email, password) ==
    LET user == getUserByEmail(us, email)
    IN  IF user = Null
        THEN [isValid |-> FALSE, message |-> MsgInvalidLogin, userId |-> Undefined]
        ELSE IF ~us[user].isVerified
        THEN [isValid |-> FALSE, message |-> MsgNotVerified, userId |-> Undefined]
        ELSE LET storedSalt == us[user].password.salt
                 storedHash == us[user].password.hash
                 inputHash == sha1(storedSalt, password)
             IN  IF inputHash = storedHash
                 THEN [isValid |-> TRUE, message |-> MsgLoginOk, userId |-> user]
                 ELSE [isValid |-> FALSE, message |-> MsgInvalidLogin, userId |-> Undefined]

\* startSession with the lifetime of a key instead of that of a session
startSession_keyLifetime(ss, userId, uuid, t) ==
    LET expiry == t + 5 * 60 * 1000
        session == [sessionKey |-> uuid,
                    expiry |-> expiry,
                    data |-> [userId |-> userId, csrfToken |-> Undefined]]
    IN  saveSession(ss, session)

\* startSession that leaves the user out of the session data
startSession_noOwner(ss, userId, uuid, t) ==
    LET expiry == t + 10 * 60 * 1000
        session == [sessionKey |-> uuid,
                    expiry |-> expiry,
                    data |-> [userId |-> Undefined, csrfToken |-> Undefined]]
    IN  saveSession(ss, session)

startSession(ss, userId, uuid, t) ==
    LET expiry == t + 10 * 60 * 1000
        session == [sessionKey |-> uuid,
                    expiry |-> expiry,
                    data |-> [userId |-> userId, csrfToken |-> Undefined]]
    IN  saveSession(ss, session)

storeResetKey(us, email, resetKey, t) == storeKey(us, email, resetKey, "reset", t)

getUserByResetKey(us, resetKey, t) == getUserByKey(us, resetKey, "reset", t)

\* resetPassword that resolves the key before it checks the passwords
resetPassword_keyFirst(us, resetKey, newPassword, confirmedPassword, salt, t) ==
    LET user == getUserByKey(us, resetKey, "reset", t)
    IN  IF user = Null
        THEN [isValid |-> FALSE, message |-> MsgBadResetKey, users |-> us]
        ELSE IF ~validatePassword(newPassword)
        THEN [isValid |-> FALSE, message |-> MsgWeakPassword, users |-> us]
        ELSE IF trim(newPassword) # trim(confirmedPassword)
        THEN [isValid |-> FALSE, message |-> MsgMismatch, users |-> us]
        ELSE LET saltedHash == createSaltedHash(salt, newPassword)
             IN  [isValid |-> TRUE, message |-> "",
                  users |-> clearKey(updatePassword(us, us[user].email, saltedHash),
                                     us[user].email, "reset")]

resetPassword(us, resetKey, newPassword, confirmedPassword, salt, t) ==
    IF ~validatePassword(newPassword)
    THEN [isValid |-> FALSE, message |-> MsgWeakPassword, users |-> us]
    ELSE IF trim(newPassword) # trim(confirmedPassword)
    THEN [isValid |-> FALSE, message |-> MsgMismatch, users |-> us]
    ELSE LET user == getUserByKey(us, resetKey, "reset", t)
         IN  IF user = Null
             THEN [isValid |-> FALSE, message |-> MsgBadResetKey, users |-> us]
             ELSE LET saltedHash == createSaltedHash(salt, newPassword)
                  IN  [isValid |-> TRUE, message |-> "",
                       users |-> clearKey(updatePassword(us, us[user].email, saltedHash),
                                          us[user].email, "reset")]

\* hasReceivedReply that asks only for two messages in the conversation
hasReceivedReply_anyTwo(ms, senderId, receiverId) ==
    LET convo == getConversation(ms, senderId, receiverId)
    IN  IF ~convo.some THEN [throws |-> TRUE, value |-> FALSE]
        ELSE [throws |-> FALSE, value |-> Len(convo.list) >= 2]

\* a malformed id leaves the conversation undefined, and reading its length throws
hasReceivedReply(ms, senderId, receiverId) ==
    LET convo == getConversation(ms, senderId, receiverId)
    IN  IF ~convo.some THEN [throws |-> TRUE, value |-> FALSE]
        ELSE [throws |-> FALSE,
              value |-> \E i \in 1..(Len(convo.list) - 1) :
                          /\ convo.list[i].senderId = senderId
                          /\ convo.list[i].receiverId = receiverId
                          /\ convo.list[i + 1].senderId = receiverId
                          /\ convo.list[i + 1].receiverId = senderId]

\* badgeRules with a hundredth message that does not count yet
badgeRules_moreThan100(name, ms, senderId, receiverId) ==
    IF name = "First Conversation" THEN hasReceivedReply(ms, senderId, receiverId)
    ELSE IF name = "100 Messages Sent"
    THEN LET userMessages == getUserMessages(ms, senderId)
         IN  IF ~userMessages.some THEN [throws |-> TRUE, value |-> FALSE]
             ELSE [throws |-> FALSE, value |-> Len(userMessages.list) > 100]
    ELSE [throws |-> FALSE, value |-> FALSE]

\* badgeRules[badge.name]?.()
badgeRules(name, ms, senderId, receiverId) ==
    IF name = "First Conversation" THEN hasReceivedReply(ms, senderId, receiverId)
    ELSE IF name = "100 Messages Sent"
    THEN LET userMessages == getUserMessages(ms, senderId)
         IN  IF ~userMessages.some THEN [throws |-> TRUE, value |-> FALSE]
             ELSE [throws |-> FALSE, value |-> Len(userMessages.list) >= 100]
    ELSE [throws |-> FALSE, value |-> FALSE]

\* the loop over the catalog, from its k-th entry on
RECURSIVE awardFrom(_, _, _, _, _, _)
awardFrom(us, ms, allBadges, k, senderId, receiverId) ==
    IF k > Len(allBadges) THEN [throws |-> FALSE, users |-> us]
    ELSE LET badge == allBadges[k]
             userBadges == getUserBadges(us, senderId)
         IN  IF \E j \in 1..Len(userBadges) : userBadges[j].name = badge.name
             THEN awardFrom(us, ms, allBadges, k + 1, senderId, receiverId)
             ELSE LET isEligible == badgeRules(badge.name, ms, senderId, receiverId)
                  IN  IF isEligible.throws THEN [throws |-> TRUE, users |-> us]
                      ELSE IF isEligible.value
                      THEN awardFrom(persistence_awardBadge(us, senderId, badge), ms,
                                     allBadges, k + 1, senderId, receiverId)
                      ELSE awardFrom(us, ms, allBadges, k + 1, senderId, receiverId)

business_awardBadge(us, ms, cat, senderId, receiverId) ==
    awardFrom(us, ms, getAllBadges(cat), 1, senderId, receiverId)

sendMessage(ms, senderId, receiverId) == saveMessage(ms, senderId, receiverId)

\* generateFormToken that keeps the token a session holds already
generateFormToken_keepsFirst(ss, key, token, t) ==
    LET sessionData == getSession(ss, key, t)
    IN  IF ~sessionData.some THEN [throws |-> TRUE, sessions |-> ss]
        ELSE IF sessionData.data.csrfToken # Undefined THEN [throws |-> FALSE, sessions |-> ss]
        ELSE [throws |-> FALSE,
              sessions |-> updateSession(ss, key, [sessionData.data EXCEPT !.csrfToken = token])]

\* generateFormToken that also gives the session a new lifetime
generateFormToken_renews(ss, key, token, t) ==
    LET sessionData == getSession(ss, key, t)
        i == findOne(ss, <<"sessionKey">>, key)
    IN  IF ~sessionData.some THEN [throws |-> TRUE, sessions |-> ss]
        ELSE [throws |-> FALSE,
              sessions |-> [updateSession(ss, key, [sessionData.data EXCEPT !.csrfToken = token])
                            EXCEPT ![i].expiry = t + 10 * 60 * 1000]]

\* writing a field of the null data of a missing or expired session throws
generateFormToken(ss, key, token, t) ==
    LET sessionData == getSession(ss, key, t)
    IN  IF ~sessionData.some THEN [throws |-> TRUE, sessions |-> ss]
        ELSE [throws |-> FALSE,
              sessions |-> updateSession(ss, key, [sessionData.data EXCEPT !.csrfToken = token])]

\* the field is deleted from the copy that is then merged into the stored data
cancelToken(ss, key, t) ==
    LET sessionData == getSession(ss, key, t)
    IN  IF ~sessionData.some THEN [throws |-> TRUE, sessions |-> ss]
        ELSE [throws |-> FALSE,
              sessions |-> updateSession(ss, key, [sessionData.data EXCEPT !.csrfToken = Undefined])]

-----------------------------------------------------------------------------
(* The presentation layer.  A handler maps the store (the variables) and    *)
(* its request to an Outcome: the store it leaves, and the response.        *)

Response(status, to, message, type) ==
    [status |-> status, to |-> to, message |-> message, type |-> type,
     setCookie |-> Undefined, clearCookie |-> FALSE, csrfToken |-> Undefined,
     next |-> FALSE, userId |-> Undefined, awards |-> 0, fileStored |-> FALSE,
     matchingUsers |-> <<>>]

redirect(to, message, type) == Response("redirect", to, message, type)

render(view) == Response("render", view, "", "")

\* the handler has not answered yet
Pending == Response("", "", "", "")

Outcome(us, ss, ms, uuids, res) ==
    [users |-> us, sessions |-> ss, messages |-> ms, uuidCount |-> uuids, res |-> res]

\* an answer that leaves the store as it is
Answer(res) == Outcome(users, sessions, messages, uuidCount, res)

\* crypto.randomUUID(): a value never handed out before
randomUUID == uuidCount + 1

\* attachSessionData without the return after the redirect of a session that
\* is missing or expired: next() is called all the same
attachSessionData_noReturn(sessionKey) ==
    IF sessionKey = Undefined
    THEN redirect("/login", MsgPleaseLogIn, "error")
    ELSE LET sessionData == getSession(sessions, sessionKey, now)
         IN  [Pending EXCEPT !.next = TRUE, !.userId = sessionData.data.userId]

\* the middleware of the routes that need a login: next() is called with
\* req.userId set, or the request is answered with a redirect
attachSessionData(sessionKey) ==
    IF sessionKey = Undefined
    THEN redirect("/login", MsgPleaseLogIn, "error")
    ELSE LET sessionData == getSession(sessions, sessionKey, now)
         IN  IF ~sessionData.some \/ sessionData.data.userId = Undefined
             THEN redirect("/login", MsgSessionExpired, "error")
             ELSE [Pending EXCEPT !.next = TRUE, !.userId = sessionData.data.userId]

\* the checks on the text fields with the username checked before the password
signUpTextChecks_usernameFirst(username, email, password, confirmedPassword) ==
    LET isEmailValid == validateEmail(users, email)
        isPasswordValid == validatePassword(password)
        isUsernameValid == validateUsername(users, username)
    IN  IF ~isEmailValid THEN MsgBadEmail
        ELSE IF isUsernameValid # Null THEN MsgUsernameTaken
        ELSE IF ~isPasswordValid THEN MsgWeakPassword
        ELSE IF trim(confirmedPassword) # trim(password) THEN MsgMismatch
        ELSE ""

\* the checks on the four text fields, in the order of the handler: the
\* message of the first that fails, or "" when all pass
signUpTextChecks(username, email, password, confirmedPassword) ==
    LET isEmailValid == validateEmail(users, email)
        isPasswordValid == validatePassword(password)
        isUsernameValid == validateUsername(users, username)
    IN  IF ~isEmailValid THEN MsgBadEmail
        ELSE IF ~isPasswordValid THEN MsgWeakPassword
        ELSE IF trim(confirmedPassword) # trim(password) THEN MsgMismatch
        ELSE IF isUsernameValid # Null THEN MsgUsernameTaken
        ELSE ""

\* POST /sign-up; salt, mailOk and insertOk are what crypto.randomBytes, the
\* mail relay and users.insertOne give this request; persistence.createUser
\* catches and logs an insert that is rejected, and business.createUser
\* returns as after one that is not
post_sign_up_storage(username, email, password, confirmedPassword, knownLanguagesArray, learningLanguagesArray, profilePicture, salt, mailOk, insertOk) ==
    LET isProfilePictureValid == validateProfilePicture(profilePicture)
        textError == signUpTextChecks(username, email, password, confirmedPassword)
        created == IF insertOk
                   THEN business_createUser(users, username, email, password,
                            knownLanguagesArray, learningLanguagesArray, salt)
                   ELSE users
        sent == sendVerificationEmail(created, email, randomUUID, now, mailOk)
    IN  IF textError # "" THEN Answer(redirect("/sign-up", textError, ""))
        ELSE IF knownLanguagesArray = <<>> THEN Answer(redirect("/sign-up", MsgNoKnown, ""))
        ELSE IF learningLanguagesArray = <<>>
        THEN Answer(redirect("/sign-up", MsgNoLearning, ""))
        ELSE IF ~isProfilePictureValid.isValid
        THEN Answer(redirect("/sign-up", isProfilePictureValid.message, ""))
        ELSE Outcome(sent.users, sessions, messages, uuidCount + 1,
                     [(IF sent.throws
                       THEN redirect("/sign-up", MsgMailFailed, "")
                       ELSE redirect("/login", MsgRegistered, "success"))
                      EXCEPT !.fileStored = profilePicture.present])

\* POST /sign-up over a store that takes the insert
post_sign_up(username, email, password, confirmedPassword, knownLanguagesArray, learningLanguagesArray, profilePicture, salt, mailOk) ==
    post_sign_up_storage(username, email, password, confirmedPassword, knownLanguagesArray,
                         learningLanguagesArray, profilePicture, salt, mailOk, TRUE)

\* GET /verify-email?key=
get_verify_email(key) ==
    LET verified == verifyEmail(users, key, now)
    IN  Outcome(verified.users, sessions, messages, uuidCount,
                IF verified.throws
                THEN redirect("/login", MsgVerifyFailed, "error")
                ELSE redirect("/login", MsgVerified, "success"))

\* POST /reset-password
post_reset_password(email, mailOk) ==
    LET emailExists == checkEmailExists(users, email)
    IN  IF ~emailExists
        THEN Answer(redirect("/reset-password", MsgNotRegistered, "error"))
        ELSE Outcome(storeResetKey(users, email, randomUUID, now), sessions, messages,
                     uuidCount + 1,
                     IF mailOk
                     THEN redirect("/reset-password", MsgResetSent, "success")
                     ELSE redirect("/reset-password", MsgUnexpected, "error"))

\* GET /update-password?key=
get_update_password(resetKey) ==
    LET user == getUserByResetKey(users, resetKey, now)
    IN  IF user = Null
        THEN Answer(redirect("/update-password", MsgBadResetKey, "error"))
        ELSE Answer(render("updatePassword"))

\* POST /update-password
post_update_password(resetKey, newPassword, confirmedPassword, salt) ==
    LET resetResult == resetPassword(users, resetKey, newPassword, confirmedPassword,
                                     salt, now)
    IN  Outcome(resetResult.users, sessions, messages, uuidCount,
                IF ~resetResult.isValid
                THEN redirect("/update-password", resetResult.message, "error")
                ELSE redirect("/login", MsgResetOk, "success"))

\* POST /login
post_login(email, password) ==
    LET loginResult == checkLogin(users, email, password)
        sessionKey == randomUUID
    IN  IF ~loginResult.isValid
        THEN Answer(redirect("/login", loginResult.message, "error"))
        ELSE Outcome(users, startSession(sessions, loginResult.userId, sessionKey, now),
                     messages, uuidCount + 1,
                     [redirect("/dashboard", MsgWelcome, "success")
                         EXCEPT !.setCookie = sessionKey])

\* GET /badges: a route that needs a login and only reads
get_badges(cookie) ==
    LET gate == attachSessionData(cookie)
    IN  IF ~gate.next THEN Answer(gate)
        ELSE Answer([gate EXCEPT !.status = "render", !.to = "badges"])

\* GET /conversation/:receiverId: the token is stored before the page is
\* rendered; rendering reads the username of the receiver, which throws when
\* there is no such user
get_conversation(cookie, receiverId) ==
    LET gate == attachSessionData(cookie)
        receiver == getUserById(users, receiverId)
        token == randomUUID
        csrfToken == generateFormToken(sessions, cookie, token, now)
    IN  IF ~gate.next THEN Answer(gate)
        ELSE Outcome(users, csrfToken.sessions, messages, uuidCount + 1,
                     IF csrfToken.throws \/ receiver = Null
                     THEN [gate EXCEPT !.status = "500", !.message = MsgConversationError]
                     ELSE [gate EXCEPT !.status = "render", !.to = "conversation",
                                       !.csrfToken = token])

\* POST /conversation/:receiverId without the comparison of the tokens
post_conversation_noTokenCheck(cookie, receiverId, csrfToken) ==
    LET gate == attachSessionData(cookie)
        senderId == gate.userId
        sent == sendMessage(messages, senderId, receiverId)
        first == business_awardBadge(users, sent, badges, senderId, receiverId)
        second == business_awardBadge(first.users, sent, badges, receiverId, senderId)
    IN  IF ~gate.next THEN Answer(gate)
        ELSE IF first.throws
        THEN Outcome(first.users, sessions, sent, uuidCount,
                     [gate EXCEPT !.status = "500", !.message = MsgSendError, !.awards = 1])
        ELSE IF second.throws
        THEN Outcome(second.users, sessions, sent, uuidCount,
                     [gate EXCEPT !.status = "500", !.message = MsgSendError, !.awards = 2])
        ELSE Outcome(second.users, sessions, sent, uuidCount,
                     [gate EXCEPT !.status = "redirect", !.to = "/conversation",
                                  !.awards = 2])

\* POST /conversation/:receiverId with the badges evaluated for the sender only
post_conversation_senderOnly(cookie, receiverId, csrfToken) ==
    LET gate == attachSessionData(cookie)
        senderId == gate.userId
        sessionData == getSession(sessions, cookie, now)
        sent == sendMessage(messages, senderId, receiverId)
        first == business_awardBadge(users, sent, badges, senderId, receiverId)
    IN  IF ~gate.next THEN Answer(gate)
        ELSE IF ~sessionData.some \/ sessionData.data.csrfToken # csrfToken
        THEN Answer([gate EXCEPT !.status = "redirect", !.to = "/login",
                                 !.message = MsgSessionExpired, !.type = "error"])
        ELSE IF first.throws
        THEN Outcome(first.users, sessions, sent, uuidCount,
                     [gate EXCEPT !.status = "500", !.message = MsgSendError, !.awards = 1])
        ELSE Outcome(first.users, sessions, sent, uuidCount,
                     [gate EXCEPT !.status = "redirect", !.to = "/conversation",
                                  !.awards = 1])

\* POST /conversation/:receiverId
post_conversation(cookie, receiverId, csrfToken) ==
    LET gate == attachSessionData(cookie)
        senderId == gate.userId
        sessionData == getSession(sessions, cookie, now)
        sent == sendMessage(messages, senderId, receiverId)
        first == business_awardBadge(users, sent, badges, senderId, receiverId)
        second == business_awardBadge(first.users, sent, badges, receiverId, senderId)
    IN  IF ~gate.next THEN Answer(gate)
        ELSE IF ~sessionData.some \/ sessionData.data.csrfToken # csrfToken
        THEN Answer([gate EXCEPT !.status = "redirect", !.to = "/login",
                                 !.message = MsgSessionExpired, !.type = "error"])
        ELSE IF first.throws
        THEN Outcome(first.users, sessions, sent, uuidCount,
                     [gate EXCEPT !.status = "500", !.message = MsgSendError, !.awards = 1])
        ELSE IF second.throws
        THEN Outcome(second.users, sessions, sent, uuidCount,
                     [gate EXCEPT !.status = "500", !.message = MsgSendError, !.awards = 2])
        ELSE Outcome(second.users, sessions, sent, uuidCount,
                     [gate EXCEPT !.status = "redirect", !.to = "/conversation",
                                  !.awards = 2])

\* GET /dashboard; business.getMatchingUsers hands the call on to the
\* persistence layer; reading the username of a user that is not found throws
get_dashboard(cookie) ==
    LET gate == attachSessionData(cookie)
        user == getUserById(users, gate.userId)
        matchingUsers == getMatchingUsers(users, gate.userId)
    IN  IF ~gate.next THEN Answer(gate)
        ELSE IF user = Null
        THEN Answer([gate EXCEPT !.status = "500",
                        !.message = "An error occurred while loading your dashboard."])
        ELSE Answer([gate EXCEPT !.status = "render", !.to = "dashboard",
                                 !.matchingUsers = matchingUsers.list])

\* POST /remove-contact/:contactId; business.removeContact hands the call on
\* to the persistence layer
post_remove_contact(cookie, contactId) ==
    LET gate == attachSessionData(cookie)
    IN  IF ~gate.next THEN Answer(gate)
        ELSE Outcome(removeContact(users, gate.userId, contactId), sessions, messages,
                     uuidCount,
                     [gate EXCEPT !.status = "redirect", !.to = "/my-contacts",
                                  !.message = "Contact removed successfully!",
                                  !.type = "success"])

\* GET /add-contact/:contactId; business.addContact hands the call on to the
\* persistence layer
get_add_contact(cookie, contactId) ==
    LET gate == attachSessionData(cookie)
    IN  IF ~gate.next THEN Answer(gate)
        ELSE Outcome(addContact(users, gate.userId, contactId), sessions, messages,
                     uuidCount,
                     [gate EXCEPT !.status = "redirect", !.to = "/dashboard",
                                  !.message = "Contact was added successfully!",
                                  !.type = "success"])

\* GET /block-contact/:contactId; business.blockContact hands the call on to
\* the persistence layer
get_block_contact(cookie, contactId) ==
    LET gate == attachSessionData(cookie)
    IN  IF ~gate.next THEN Answer(gate)
        ELSE Outcome(blockContact(users, gate.userId, contactId), sessions, messages,
                     uuidCount,
                     [gate EXCEPT !.status = "redirect", !.to = "/dashboard",
                                  !.message = "Contact blocked successfully!",
                                  !.type = "success"])

\* POST /unblock-contact/:contactId: the business layer has no unblockContact,
\* the call of the undefined member throws and the catch answers
post_unblock_contact(cookie, contactId) ==
    LET gate == attachSessionData(cookie)
    IN  IF ~gate.next THEN Answer(gate)
        ELSE Answer([gate EXCEPT !.status = "redirect", !.to = "/blocked-contacts",
                                 !.message = "An error occurred while unblocking the contact.",
                                 !.type = "error"])

\* GET /logout
get_logout(sessionKey) ==
    LET cancelled == cancelToken(sessions, sessionKey, now)
    IN  IF sessionKey = Undefined
        THEN Answer(redirect("/login", MsgLoggedOut, "success"))
        ELSE IF cancelled.throws
        THEN Answer(redirect("/dashboard", MsgUnexpected, ""))
        ELSE Outcome(users, deleteSession(cancelled.sessions, sessionKey), messages,
                     uuidCount,
                     [redirect("/login", MsgLoggedOut, "success") EXCEPT !.clearCookie = TRUE])

-----------------------------------------------------------------------------
(* The state machine *)

Init ==
    /\ users = <<>>
    /\ sessions = <<>>
    /\ messages = <<>>
    /\ badges = initializeBadges
    /\ now = 0
    /\ uuidCount = 0
    /\ usedResetKeys = {}
    /\ sendsLeft = MaxMessages
    /\ pending = <<>>
    /\ connection = NotConnected

\* the handlers that answer without a storage call: a route behind
\* attachSessionData asked without a cookie, GET /logout without a cookie
callsStore(res) ==
    ~ \/ res.message = MsgPleaseLogIn
      \/ res.message = MsgLoggedOut /\ ~res.clearCookie

\* the handler runs to its end, within the bounds of the model; its first
\* storage call connects
Handle(outcome) ==
    /\ Len(outcome.users) <= MaxUsers
    /\ Len(outcome.messages) - Len(messages) <= sendsLeft
    /\ outcome.uuidCount <= MaxUuid
    /\ users' = outcome.users
    /\ sessions' = outcome.sessions
    /\ messages' = outcome.messages
    /\ uuidCount' = outcome.uuidCount
    /\ sendsLeft' = sendsLeft - (Len(outcome.messages) - Len(messages))
    /\ connection' = IF callsStore(outcome.res) THEN connectDatabase(connection)
                      ELSE connection
    /\ UNCHANGED <<badges, now, pending>>

\* the clock advances between two requests
Tick ==
    /\ now < MaxTicks * TickMs
    /\ now' = now + TickMs
    /\ UNCHANGED <<users, sessions, messages, badges, uuidCount, usedResetKeys, sendsLeft, pending, connection>>

\* the sign-up form
SignUpForm(username, email, password, confirmedPassword, knownLanguagesArray, learningLanguagesArray, profilePicture) ==
    [username |-> username, email |-> email, password |-> password,
     confirmedPassword |-> confirmedPassword,
     knownLanguagesArray |-> knownLanguagesArray,
     learningLanguagesArray |-> learningLanguagesArray,
     profilePicture |-> profilePicture]

\* an empty form
EmptyForm == SignUpForm("", <<>>, <<>>, <<>>, <<>>, <<>>, NoPicture)

SubmitSignUp(form, salt, mailOk) ==
    Handle(post_sign_up(form.username, form.email, form.password,
                        form.confirmedPassword, form.knownLanguagesArray,
                        form.learningLanguagesArray, form.profilePicture, salt, mailOk))

\* the handler checks the fields one after the other and answers at the first
\* check that fails, whatever the later fields are: they are then those of
\* the empty form
PostSignUp ==
    /\ \E email \in Emails, salt \in Salts :
         LET f1 == [EmptyForm EXCEPT !.email = email]
         IN  IF ~validateEmail(users, email) THEN SubmitSignUp(f1, salt, TRUE)
             ELSE \E password \in SignUpPasswords :
         LET f2 == [f1 EXCEPT !.password = password]
         IN  IF ~validatePassword(password) THEN SubmitSignUp(f2, salt, TRUE)
             ELSE \E confirmedPassword \in Passwords :
         LET f3 == [f2 EXCEPT !.confirmedPassword = confirmedPassword]
         IN  IF trim(confirmedPassword) # trim(password) THEN SubmitSignUp(f3, salt, TRUE)
             ELSE \E username \in Usernames :
         LET f4 == [f3 EXCEPT !.username = username]
         IN  IF validateUsername(users, username) # Null THEN SubmitSignUp(f4, salt, TRUE)
             ELSE \E knownLanguagesArray \in LanguageArrays :
         LET f5 == [f4 EXCEPT !.knownLanguagesArray = knownLanguagesArray]
         IN  IF knownLanguagesArray = <<>> THEN SubmitSignUp(f5, salt, TRUE)
             ELSE \E learningLanguagesArray \in LanguageArrays :
         LET f6 == [f5 EXCEPT !.learningLanguagesArray = learningLanguagesArray]
         IN  IF learningLanguagesArray = <<>> THEN SubmitSignUp(f6, salt, TRUE)
             ELSE \E profilePicture \in Pictures, mailOk \in BOOLEAN :
                     SubmitSignUp([f6 EXCEPT !.profilePicture = profilePicture],
                                  salt, mailOk)
    /\ UNCHANGED usedResetKeys

GetVerifyEmail ==
    /\ \E key \in UuidInputs : Handle(get_verify_email(key))
    /\ UNCHANGED usedResetKeys

PostResetPassword ==
    /\ \E email \in Emails, mailOk \in BOOLEAN : Handle(post_reset_password(email, mailOk))
    /\ UNCHANGED usedResetKeys

GetUpdatePassword ==
    /\ \E resetKey \in UuidInputs : Handle(get_update_password(resetKey))
    /\ UNCHANGED usedResetKeys

\* the key is read only when the two passwords pass; the history records the
\* key of a reset that is answered as successful
PostUpdatePassword ==
    \E newPassword \in Passwords, confirmedPassword \in Passwords, salt \in Salts :
        IF ~validatePassword(newPassword) \/ trim(newPassword) # trim(confirmedPassword)
        THEN /\ Handle(post_update_password(Undefined, newPassword, confirmedPassword,
                                             salt))
             /\ UNCHANGED usedResetKeys
        ELSE \E resetKey \in UuidInputs :
                LET outcome == post_update_password(resetKey, newPassword,
                                                    confirmedPassword, salt)
                IN  /\ Handle(outcome)
                    /\ usedResetKeys' = IF outcome.res.type = "success"
                                         THEN usedResetKeys \cup {resetKey}
                                         ELSE usedResetKeys

\* the password is read only when the email is that of a verified user
PostLogin ==
    /\ \E email \in Emails :
           IF checkLogin(users, email, <<>>).message # MsgInvalidLogin
           THEN Handle(post_login(email, <<>>))
           ELSE \E password \in Passwords : Handle(post_login(email, password))
    /\ UNCHANGED usedResetKeys

GetDashboard ==
    /\ \E cookie \in UuidInputs : Handle(get_dashboard(cookie))
    /\ UNCHANGED usedResetKeys

GetBadges ==
    /\ \E cookie \in UuidInputs : Handle(get_badges(cookie))
    /\ UNCHANGED usedResetKeys

\* the parameters of the route are read only behind the session gate
GetConversation ==
    /\ \E cookie \in UuidInputs :
           IF ~attachSessionData(cookie).next
           THEN Handle(get_conversation(cookie, MalformedId))
           ELSE \E receiverId \in IdInputs : Handle(get_conversation(cookie, receiverId))
    /\ UNCHANGED usedResetKeys

PostConversation ==
    /\ \E cookie \in UuidInputs :
           IF ~attachSessionData(cookie).next
           THEN Handle(post_conversation(cookie, MalformedId, Undefined))
           ELSE \E receiverId \in IdInputs, csrfToken \in UuidInputs :
                   Handle(post_conversation(cookie, receiverId, csrfToken))
    /\ UNCHANGED usedResetKeys

GetLogout ==
    /\ \E cookie \in UuidInputs : Handle(get_logout(cookie))
    /\ UNCHANGED usedResetKeys

\* the ids of the contact routes: the ids the store has assigned
ContactIdInputs == 1..MaxUsers

PostRemoveContact ==
    /\ \E cookie \in UuidInputs :
           IF ~attachSessionData(cookie).next
           THEN Handle(post_remove_contact(cookie, MalformedId))
           ELSE \E contactId \in ContactIdInputs :
                   Handle(post_remove_contact(cookie, contactId))
    /\ UNCHANGED usedResetKeys

GetAddContact ==
    /\ \E cookie \in UuidInputs :
           IF ~attachSessionData(cookie).next
           THEN Handle(get_add_contact(cookie, MalformedId))
           ELSE \E contactId \in ContactIdInputs :
                   Handle(get_add_contact(cookie, contactId))
    /\ UNCHANGED usedResetKeys

GetBlockContact ==
    /\ \E cookie \in UuidInputs :
           IF ~attachSessionData(cookie).next
           THEN Handle(get_block_contact(cookie, MalformedId))
           ELSE \E contactId \in ContactIdInputs :
                   Handle(get_block_contact(cookie, contactId))
    /\ UNCHANGED usedResetKeys

PostUnblockContact ==
    /\ \E cookie \in UuidInputs :
           IF ~attachSessionData(cookie).next
           THEN Handle(post_unblock_contact(cookie, MalformedId))
           ELSE \E contactId \in ContactIdInputs :
                   Handle(post_unblock_contact(cookie, contactId))
    /\ UNCHANGED usedResetKeys

Next ==
    \/ Tick
    \/ PostSignUp
    \/ GetVerifyEmail
    \/ PostResetPassword
    \/ GetUpdatePassword
    \/ PostUpdatePassword
    \/ PostLogin
    \/ GetDashboard
    \/ GetBadges
    \/ GetConversation
    \/ PostConversation
    \/ PostRemoveContact
    \/ GetAddContact
    \/ GetBlockContact
    \/ PostUnblockContact
    \/ GetLogout

Spec == Init /\ [][Next]_vars

\* registration and password reset
NextReset ==
    \/ Tick
    \/ PostSignUp
    \/ PostResetPassword
    \/ GetUpdatePassword
    \/ PostUpdatePassword

SpecReset == Init /\ [][NextReset]_vars

\* login, and the routes behind the session gate
NextSession ==
    \/ Tick
    \/ PostSignUp
    \/ GetVerifyEmail
    \/ PostLogin
    \/ GetBadges
    \/ GetConversation
    \/ PostConversation

SpecSession == Init /\ [][NextSession]_vars

\* registration and verification
NextSignUp ==
    \/ Tick
    \/ PostSignUp
    \/ GetVerifyEmail

SpecSignUp == Init /\ [][NextSignUp]_vars

\* the store at the moment alice and bob, registered and verified, have both
\* logged in, alice having sent n messages to bob from earlier sessions whose
\* documents are no longer stored; the behaviour may send this many more
LoggedIn(n, sends) ==
    LET salt == CHOOSE x \in Salts : TRUE
        english == <<"English">>
        alice == business_createUser(<<>>, "alice", EmailA, PwStrong, english, english, salt)
        both == business_createUser(alice, "bob", EmailB, PwStrong, english, english, salt)
        verified == updateUserField(updateUserField(both, EmailA, "isVerified", TRUE),
                                    EmailB, "isVerified", TRUE)
    IN  /\ users = verified
        /\ sessions = startSession(startSession(<<>>, 1, 1, 0), 2, 2, 0)
        /\ messages = [i \in 1..n |-> [senderId |-> 1, receiverId |-> 2]]
        /\ badges = initializeBadges
        /\ now = 0
        /\ uuidCount = 2
        /\ usedResetKeys = {}
        /\ sendsLeft = sends
        /\ pending = <<>>
        /\ connection = connectDatabase(NotConnected)

\* the numbers of messages alice has sent before: none, and those from which
\* the behaviour reaches the hundredth
SeedCounts == {0, 100 - MaxChat, 100 - 1}

InitChat == \E n \in SeedCounts : LoggedIn(n, MaxChat)

\* conversations and their badges
NextChat ==
    \/ Tick
    \/ GetBadges
    \/ GetConversation
    \/ PostConversation

SpecChat == InitChat /\ [][NextChat]_vars

InitBlock == LoggedIn(0, MaxMessages)

\* blocking, against adding a contact and sending a message
NextBlock ==
    \/ GetAddContact
    \/ GetBlockContact
    \/ PostConversation

SpecBlock == InitBlock /\ [][NextBlock]_vars

InitContacts == LoggedIn(0, 0)

\* the contact lists, and logout
NextContacts ==
    \/ Tick
    \/ PostRemoveContact
    \/ GetAddContact
    \/ GetBlockContact
    \/ PostUnblockContact
    \/ GetLogout

SpecContacts == InitContacts /\ [][NextContacts]_vars

\* the language selections of a registered user: the sign-up form takes no
\* empty selection
LanguageChoices == {<<"English">>, <<"French">>, <<"English", "French">>}

\* alice and bob, registered with any of the language selections and
\* verified, have both logged in
InitMatching ==
    \E known1 \in LanguageChoices, learning1 \in LanguageChoices :
        \E known2 \in LanguageChoices, learning2 \in LanguageChoices :
            LET salt == CHOOSE x \in Salts : TRUE
                alice == business_createUser(<<>>, "alice", EmailA, PwStrong, known1,
                                             learning1, salt)
                both == business_createUser(alice, "bob", EmailB, PwStrong, known2,
                                            learning2, salt)
            IN  /\ users = updateUserField(updateUserField(both, EmailA, "isVerified", TRUE),
                                           EmailB, "isVerified", TRUE)
                /\ sessions = startSession(startSession(<<>>, 1, 1, 0), 2, 2, 0)
                /\ messages = <<>>
                /\ badges = initializeBadges
                /\ now = 0
                /\ uuidCount = 2
                /\ usedResetKeys = {}
                /\ sendsLeft = 0
                /\ pending = <<>>
                /\ connection = connectDatabase(NotConnected)

\* the dashboard of matching users
NextMatching ==
    \/ Tick
    \/ GetDashboard

SpecMatching == InitMatching /\ [][NextMatching]_vars

\* alice, registered and verified, has logged in; nobody else is registered
InitLifecycle ==
    LET salt == CHOOSE x \in Salts : TRUE
        english == <<"English">>
        alice == business_createUser(<<>>, "alice", EmailA, PwStrong, english, english, salt)
    IN  /\ users = updateUserField(alice, EmailA, "isVerified", TRUE)
        /\ sessions = startSession(<<>>, 1, 1, 0)
        /\ messages = <<>>
        /\ badges = initializeBadges
        /\ now = 0
        /\ uuidCount = 1
        /\ usedResetKeys = {}
        /\ sendsLeft = MaxMessages
        /\ pending = <<>>
        /\ connection = connectDatabase(NotConnected)

\* registration, verification, login and password reset next to a user who
\* is logged in
NextLifecycle ==
    \/ Tick
    \/ PostSignUp
    \/ GetVerifyEmail
    \/ PostLogin
    \/ PostResetPassword
    \/ GetUpdatePassword
    \/ PostUpdatePassword

SpecLifecycle == InitLifecycle /\ [][NextLifecycle]_vars

\* the requests in flight without the k-th, which has been answered
Answered(k) == SubSeq(pending, 1, k - 1) \o SubSeq(pending, k + 1, Len(pending))

\* POST /sign-up arrives with a form whose password, languages and picture
\* pass their checks, and runs up to business.validateEmail, whose read of
\* the store it keeps in isEmailValid
BeginSignUp ==
    /\ Len(pending) < MaxPending
    /\ \E username \in Usernames, email \in {EmailA, EmailB} :
           pending' = Append(pending, [username |-> username, email |-> email,
                                       isEmailValid |-> validateEmail(users, email),
                                       at |-> "validateUsername"])
    /\ connection' = connectDatabase(connection)
    /\ UNCHANGED <<users, sessions, messages, badges, now, uuidCount, usedResetKeys, sendsLeft>>

\* a suspended POST /sign-up runs from the storage call it waits at to the
\* next one: the read of business.validateUsername and the checks of the
\* form, then the insert of business.createUser, then the storeKey of
\* business.sendVerificationEmail, after which the request is answered
StepSignUp ==
    /\ \E k \in 1..Len(pending) :
           LET req == pending[k]
               salt == CHOOSE x \in Salts : TRUE
           IN  IF req.at = "validateUsername"
               THEN /\ pending' = IF req.isEmailValid /\ validateUsername(users, req.username) = Null
                                  THEN [pending EXCEPT ![k].at = "createUser"]
                                  ELSE Answered(k)
                    /\ UNCHANGED <<users, uuidCount>>
               ELSE IF req.at = "createUser"
               THEN /\ Len(users) < MaxUsers
                    /\ users' = business_createUser(users, req.username, req.email, PwStrong,
                                                    <<"English">>, <<"English">>, salt)
                    /\ pending' = [pending EXCEPT ![k].at = "storeKey"]
                    /\ UNCHANGED uuidCount
               ELSE /\ uuidCount < MaxUuid
                    /\ users' = sendVerificationEmail(users, req.email, randomUUID, now, TRUE).users
                    /\ uuidCount' = uuidCount + 1
                    /\ pending' = Answered(k)
    /\ UNCHANGED <<sessions, messages, badges, now, usedResetKeys, sendsLeft, connection>>

\* registrations whose handlers interleave at their storage calls
NextSignUpRace ==
    \/ BeginSignUp
    \/ StepSignUp

SpecSignUpRace == Init /\ [][NextSignUpRace]_vars

\* POST /conversation/:receiverId of a logged-in user arrives and runs up to
\* the first getUserBadges of business.awardBadge(senderId, receiverId): the
\* token is checked, the message is saved, the catalog and the messages of
\* the sender are read
BeginConversation ==
    /\ Len(pending) < MaxPending
    /\ sendsLeft > 0
    /\ \E cookie \in UuidInputs, receiverId \in 1..MaxUsers, csrfToken \in UuidInputs :
           LET gate == attachSessionData(cookie)
               sessionData == getSession(sessions, cookie, now)
           IN  /\ gate.next
               /\ sessionData.some
               /\ sessionData.data.csrfToken = csrfToken
               /\ messages' = sendMessage(messages, gate.userId, receiverId)
               /\ pending' = Append(pending, [senderId |-> gate.userId,
                                              receiverId |-> receiverId,
                                              call |-> 1, k |-> 1,
                                              at |-> "getUserBadges",
                                              userMessages |-> messages'])
    /\ sendsLeft' = sendsLeft - 1
    /\ UNCHANGED <<users, sessions, badges, now, uuidCount, usedResetKeys, connection>>

\* a suspended POST /conversation runs one step of the loop of
\* business.awardBadge over the catalog: the read of the badges the user
\* holds and of the rule of the k-th badge, or the append of that badge;
\* after the last badge of the first call comes the second call, for the
\* receiver, and after the second the answer
StepAward ==
    /\ \E i \in 1..Len(pending) :
           LET req == pending[i]
               allBadges == getAllBadges(badges)
               badge == allBadges[req.k]
               senderId == IF req.call = 1 THEN req.senderId ELSE req.receiverId
               receiverId == IF req.call = 1 THEN req.receiverId ELSE req.senderId
               userBadges == getUserBadges(users, senderId)
               isEligible == badgeRules(badge.name,
                                        IF badge.name = "100 Messages Sent"
                                        THEN req.userMessages ELSE messages,
                                        senderId, receiverId)
               continue == IF req.k < Len(allBadges)
                           THEN [pending EXCEPT ![i].k = @ + 1, ![i].at = "getUserBadges"]
                           ELSE IF req.call = 1
                           THEN [pending EXCEPT ![i].call = 2, ![i].k = 1,
                                                ![i].at = "getUserBadges",
                                                ![i].userMessages = messages]
                           ELSE Answered(i)
           IN  IF req.at = "getUserBadges"
               THEN /\ pending' =
                           IF \E j \in 1..Len(userBadges) : userBadges[j].name = badge.name
                           THEN continue
                           ELSE IF isEligible.throws THEN Answered(i)
                           ELSE IF isEligible.value
                           THEN [pending EXCEPT ![i].at = "awardBadge"]
                           ELSE continue
                    /\ UNCHANGED users
               ELSE /\ users' = persistence_awardBadge(users, senderId, badge)
                    /\ pending' = continue
    /\ UNCHANGED <<sessions, messages, badges, now, uuidCount, usedResetKeys, sendsLeft, connection>>

\* messages whose handlers interleave at their storage calls
NextAwardRace ==
    \/ BeginConversation
    \/ StepAward

SpecAwardRace == InitChat /\ [][NextAwardRace]_vars

\* getUserByEmail is called and runs up to its first suspension: inside
\* connectDatabase at client.connect() when client was not set, which it now
\* is, and otherwise past connectDatabase, before its query
BeginOperation ==
    /\ Len(pending) < MaxPending
    /\ \E email \in Emails :
           IF ~connection.client
           THEN /\ connection' = [connection EXCEPT !.client = TRUE, !.created = @ + 1]
                /\ pending' = Append(pending, [email |-> email, at |-> "client.connect"])
           ELSE /\ pending' = Append(pending, [email |-> email, at |-> "users.findOne"])
                /\ UNCHANGED connection
    /\ UNCHANGED <<users, sessions, messages, badges, now, uuidCount, usedResetKeys, sendsLeft>>

\* a suspended getUserByEmail goes on: client.connect() returns and the
\* handles are resolved, or the query runs and the operation returns (the
\* user found, or nothing after the TypeError of a query on a handle that is
\* still undefined)
StepOperation ==
    /\ \E k \in 1..Len(pending) :
           IF pending[k].at = "client.connect"
           THEN /\ connection' = [connection EXCEPT !.handles = TRUE]
                /\ pending' = [pending EXCEPT ![k].at = "users.findOne"]
           ELSE /\ pending' = Answered(k)
                /\ UNCHANGED connection
    /\ UNCHANGED <<users, sessions, messages, badges, now, uuidCount, usedResetKeys, sendsLeft>>

\* the first operations of the process, which interleave at their awaits
NextConnect ==
    \/ Tick
    \/ BeginOperation
    \/ StepOperation

SpecConnect == Init /\ [][NextConnect]_vars

\* a user who is logged in logs in again, opens conversations, sends
\* messages and logs out
NextTokens ==
    \/ Tick
    \/ PostLogin
    \/ GetConversation
    \/ PostConversation
    \/ GetLogout

SpecTokens == InitLifecycle /\ [][NextTokens]_vars

\* business.generateFormToken or business.cancelToken is called for a
\* session key and runs up to persistence.updateSession: the session data is
\* read and the token is set in, or deleted from, the copy; on a missing or
\* expired session the write to the null data throws and the call ends
BeginToken ==
    /\ Len(pending) < MaxPending
    /\ \E key \in 1..MaxUuid, op \in {"generateFormToken", "cancelToken"} :
           LET sessionData == getSession(sessions, key, now)
               token == IF op = "generateFormToken" THEN randomUUID ELSE Undefined
           IN  /\ op = "generateFormToken" => uuidCount < MaxUuid
               /\ uuidCount' = IF op = "generateFormToken" THEN uuidCount + 1 ELSE uuidCount
               /\ pending' = IF ~sessionData.some THEN pending
                             ELSE Append(pending,
                                         [key |-> key, at |-> "sessions.findOne",
                                          data |-> [sessionData.data
                                                    EXCEPT !.csrfToken = token]])
    /\ UNCHANGED <<users, sessions, messages, badges, now, usedResetKeys, sendsLeft, connection>>

\* a suspended persistence.updateSession goes on: the session is read again
\* and its data merged with the copy (a session that is gone throws, and the
\* call ends), or the merged data is written to the session of that key
StepToken ==
    /\ \E k \in 1..Len(pending) :
           LET i == findOne(sessions, <<"sessionKey">>, pending[k].key)
           IN  IF pending[k].at = "sessions.findOne"
               THEN /\ pending' = IF i = Null THEN Answered(k)
                                  ELSE [pending EXCEPT
                                            ![k].at = "sessions.updateOne",
                                            ![k].data = spread(sessions[i].data, @)]
                    /\ UNCHANGED sessions
               ELSE /\ sessions' = updateOne(sessions, pending[k].key, pending[k].data)
                    /\ pending' = Answered(k)
    /\ UNCHANGED <<users, messages, badges, now, uuidCount, usedResetKeys, sendsLeft, connection>>

\* token calls that interleave with logins and logouts, within the lifetime
\* of the sessions
NextSessionRace ==
    \/ PostLogin
    \/ GetLogout
    \/ BeginToken
    \/ StepToken

SpecSessionRace == InitLifecycle /\ [][NextSessionRace]_vars

\* POST /sign-up with a form that passes its checks, over a store that may
\* reject the insert
PostSignUpStorage ==
    /\ \E username \in Usernames, email \in {EmailA, EmailB}, profilePicture \in Pictures :
           \E salt \in Salts, mailOk \in BOOLEAN, insertOk \in BOOLEAN :
               Handle(post_sign_up_storage(username, email, PwStrong, PwStrong,
                                           <<"English">>, <<"English">>, profilePicture,
                                           salt, mailOk, insertOk))
    /\ UNCHANGED usedResetKeys

\* registration and verification over a store that may reject the insert
NextSignUpFault ==
    \/ Tick
    \/ PostSignUpStorage
    \/ GetVerifyEmail

SpecSignUpFault == Init /\ [][NextSignUpFault]_vars







-----------------------------------------------------------------------------
(* Properties *)

\* the handler leaves the store as it is
NoEffect(outcome) ==
    /\ outcome.users = users
    /\ outcome.sessions = sessions
    /\ outcome.messages = messages

\* the stored sessions with this key that have a userId and whose expiry is
\* not before the clock
LiveSessions(cookie) ==
    IF cookie = Undefined THEN {}
    ELSE {i \in 1..Len(sessions) : /\ sessions[i].sessionKey = cookie
                                    /\ sessions[i].expiry >= now
                                    /\ sessions[i].data.userId # Undefined}

\* C1: a route behind attachSessionData runs its body only for a sessionKey
\* cookie that resolves, at that moment, to a stored, unexpired session with a
\* userId, and then req.userId is the userId of that session; without a
\* cookie, with an unknown key or with an expired session the request is
\* answered with a redirect to /login and the route leaves the store as it is
C1_SessionGate ==
    \A cookie \in UuidInputs :
        LET gate == attachSessionData(cookie)
            live == LiveSessions(cookie)
        IN  /\ gate.next <=> live # {}
            /\ gate.next => \A i \in live : gate.userId = sessions[i].data.userId
            /\ ~gate.next =>
                /\ gate.status = "redirect" /\ gate.to = "/login"
                /\ get_badges(cookie) = Answer(gate)
                /\ \A receiverId \in IdInputs :
                       /\ get_conversation(cookie, receiverId) = Answer(gate)
                       /\ \A csrfToken \in UuidInputs :
                              post_conversation(cookie, receiverId, csrfToken) = Answer(gate)

\* a cookie passes the gate while the session of another cookie has expired
C1_Witness ==
    \E i, j \in 1..Len(sessions) :
        /\ sessions[i].expiry < now
        /\ attachSessionData(sessions[j].sessionKey).next
        /\ ~attachSessionData(sessions[i].sessionKey).next

\* the password of the stored salted hash
IsPasswordOf(i, password) ==
    users[i].password = [salt |-> users[i].password.salt,
                         hash |-> <<users[i].password.salt, password>>]

\* C2: for a user who has signed up and is not verified, checkLogin with the
\* right email and password fails with the message that the email is not
\* verified and POST /login creates no session; once verifyEmail has succeeded
\* for the user, checkLogin with the same credentials succeeds with the id of
\* that user
C2_LoginNeedsVerification ==
    \A i \in 1..Len(users), password \in Passwords :
        IsPasswordOf(i, password) =>
            LET email == users[i].email
                loginResult == checkLogin(users, email, password)
                outcome == post_login(email, password)
            IN  /\ ~users[i].isVerified =>
                    /\ ~loginResult.isValid
                    /\ loginResult.message = MsgNotVerified
                    /\ NoEffect(outcome)
                    /\ outcome.res.setCookie = Undefined
                    /\ outcome.res.to = "/login"
                    /\ outcome.res.message = MsgNotVerified
                    /\ \A key \in UuidInputs :
                           LET verified == verifyEmail(users, key, now)
                               again == checkLogin(verified.users, email, password)
                           IN  (~verified.throws /\ verified.users[i].isVerified) =>
                                   again.isValid /\ again.userId = i
                /\ users[i].isVerified => loginResult.isValid /\ loginResult.userId = i

\* one user is not verified, another is and has logged in
C2_Witness ==
    \E i, j \in 1..Len(users) :
        /\ ~users[i].isVerified
        /\ users[j].isVerified
        /\ \E s \in 1..Len(sessions) : sessions[s].data.userId = j

\* C3: the session a login creates expires 600,000 ms after its creation;
\* getSession gives the data of a stored session, with its userId, at any
\* time before its expiry, and nothing at any time after it, while the
\* document is still in the store
C3_SessionExpiry ==
    /\ \A email \in Emails, password \in Passwords :
           LET outcome == post_login(email, password)
               sessionKey == outcome.res.setCookie
           IN  sessionKey # Undefined =>
                   /\ Len(outcome.sessions) = Len(sessions) + 1
                   /\ \A i \in 1..Len(sessions) : outcome.sessions[i] = sessions[i]
                   /\ outcome.sessions[Len(outcome.sessions)].sessionKey = sessionKey
                   /\ outcome.sessions[Len(outcome.sessions)].expiry = now + 600000
                   /\ outcome.sessions[Len(outcome.sessions)].data.userId
                          = getUserByEmail(users, email)
    /\ \A i \in 1..Len(sessions) :
           LET sessionData == getSession(sessions, sessions[i].sessionKey, now)
           IN  /\ now < sessions[i].expiry =>
                      /\ sessionData.some
                      /\ sessionData.data = sessions[i].data
                      /\ sessionData.data.userId \in 1..Len(users)
               /\ now > sessions[i].expiry => ~sessionData.some

\* one stored session is before its expiry and another is after it
C3_Witness ==
    \E i, j \in 1..Len(sessions) :
        /\ now < sessions[i].expiry
        /\ now > sessions[j].expiry

\* C4: a POST /conversation/:receiverId that passes the session gate with a
\* csrfToken other than the one stored in the session saves no message,
\* evaluates no badge and is answered with a redirect to /login with the
\* message of an expired session
C4_CsrfGate ==
    \A cookie \in UuidInputs, receiverId \in IdInputs, csrfToken \in UuidInputs :
        \A i \in LiveSessions(cookie) :
            csrfToken # sessions[i].data.csrfToken =>
                LET outcome == post_conversation(cookie, receiverId, csrfToken)
                IN  /\ NoEffect(outcome)
                    /\ outcome.res.awards = 0
                    /\ outcome.res.status = "redirect"
                    /\ outcome.res.to = "/login"
                    /\ outcome.res.message = MsgSessionExpired

\* a live session holds the token of a rendered conversation form
C4_Witness ==
    \E i \in 1..Len(sessions) :
        /\ LiveSessions(sessions[i].sessionKey) = {i}
        /\ sessions[i].data.csrfToken # Undefined

\* the users who hold this value as their key of the type, before its expiry
KeyHolders(key, type) ==
    {i \in 1..Len(users) : /\ users[i][KeyField(type)] # NoKey
                            /\ users[i][KeyField(type)].value = key
                            /\ users[i][KeyField(type)].expiry > now}

\* C5: verifyEmail with a key that no user holds, or whose expiry has passed,
\* throws (GET /verify-email answers that the link may have expired or is
\* invalid) and leaves every user as it is; with a key a user holds before its
\* expiry it sets isVerified of that user, removes the verificationKey and
\* changes nothing else, and a second verifyEmail with the key throws
C5_VerifyEmail ==
    \A key \in UuidInputs :
        LET verified == verifyEmail(users, key, now)
            holders == KeyHolders(key, "verification")
        IN  /\ holders = {} =>
                /\ verified.throws
                /\ verified.users = users
                /\ NoEffect(get_verify_email(key))
                /\ get_verify_email(key).res.message = MsgVerifyFailed
            /\ \A i \in holders :
                /\ ~verified.throws
                /\ verified.users = [users EXCEPT ![i].isVerified = TRUE,
                                                   ![i].verificationKey = NoKey]
                /\ verifyEmail(verified.users, key, now).throws
                /\ get_verify_email(key).res.message = MsgVerified

\* a user has been verified and holds no key, another holds an expired key
C5_Witness ==
    \E i, j \in 1..Len(users) :
        /\ users[i].isVerified
        /\ users[i].verificationKey = NoKey
        /\ ~users[j].isVerified
        /\ users[j].verificationKey.expiry <= now

\* C6: storeKey gives the key an expiry 300,000 ms after the store;
\* getUserByKey finds the user of a stored key at any time before the expiry
\* and gives null once the 300,000 ms have elapsed, while the document still
\* carries the key
C6_KeyExpiry ==
    /\ \A email \in Emails, type \in KeyTypes :
           LET stored == storeKey(users, email, randomUUID, type, now)
           IN  \A i \in 1..Len(users) :
                   users[i].email = email =>
                       /\ stored[i][KeyField(type)].value = randomUUID
                       /\ stored[i][KeyField(type)].expiry = now + 300000
    /\ \A i \in 1..Len(users), type \in KeyTypes :
           LET keyObject == users[i][KeyField(type)]
               user == getUserByKey(users, keyObject.value, type, now)
           IN  keyObject # NoKey =>
                   /\ now < keyObject.expiry => user = i
                   /\ now >= keyObject.expiry => user = Null

\* one stored key is before its expiry, another is at or after it
C6_Witness ==
    \E i, j \in 1..Len(users), type, other \in KeyTypes :
        /\ users[i][KeyField(type)] # NoKey
        /\ now < users[i][KeyField(type)].expiry
        /\ users[j][KeyField(other)] # NoKey
        /\ now >= users[j][KeyField(other)].expiry

\* C7: a user holds one key object per type; storeKey replaces the key of
\* the type by the new value with a new expiry, the value it replaces no
\* longer resolves to the user even before its own expiry, and the key of
\* the other type and the other users are left as they are
C7_OneKeyPerType ==
    \A email \in Emails, type \in KeyTypes :
        LET key == randomUUID
            stored == storeKey(users, email, key, type, now)
        IN  /\ Len(stored) = Len(users)
            /\ \A i \in 1..Len(users) :
                   IF users[i].email = email
                   THEN /\ stored[i] = [users[i] EXCEPT ![KeyField(type)] =
                                           [value |-> key, expiry |-> now + 300000]]
                        /\ getUserByKey(stored, key, type, now) = i
                        /\ users[i][KeyField(type)] # NoKey =>
                               getUserByKey(stored, users[i][KeyField(type)].value,
                                            type, now) = Null
                   ELSE stored[i] = users[i]

\* the one user has asked for a password reset twice at the time of the
\* sign-up, and nobody has logged in: the second reset key has replaced the
\* first within its lifetime, and the verification key is the one of the
\* sign-up
C7_Witness ==
    /\ now = 0
    /\ Len(users) = 1
    /\ sessions = <<>>
    /\ users[1].verificationKey.value = 1
    /\ users[1].resetKey.value = 3

\* C8: resetPassword checks the strength of the new password, then that the
\* trimmed new password and the trimmed confirmation are equal, then that an
\* unexpired reset key resolves to a user; it returns the message of the
\* first check that fails, and then leaves every user as it is
C8_ResetRejection ==
    \A resetKey \in UuidInputs, newPassword \in Passwords,
       confirmedPassword \in Passwords, salt \in Salts :
        LET resetResult == resetPassword(users, resetKey, newPassword,
                                         confirmedPassword, salt, now)
            weak == ~validatePassword(newPassword)
            mismatch == trim(newPassword) # trim(confirmedPassword)
            noUser == KeyHolders(resetKey, "reset") = {}
            expected == IF weak THEN MsgWeakPassword
                        ELSE IF mismatch THEN MsgMismatch
                        ELSE MsgBadResetKey
        IN  /\ resetResult.isValid <=> ~(weak \/ mismatch \/ noUser)
            /\ (weak \/ mismatch \/ noUser) =>
                   /\ resetResult.message = expected
                   /\ resetResult.users = users

\* a user holds a reset key before its expiry, so that each of the three
\* checks decides some request
C8_Witness ==
    \E i \in 1..Len(users) :
        /\ KeyHolders(users[i].resetKey.value, "reset") = {i}
        /\ ~resetPassword(users, users[i].resetKey.value, PwWeak, PwWeak,
                           "5f3a9c1e", now).isValid
        /\ ~resetPassword(users, users[i].resetKey.value, PwStrong, PwWeak,
                           "5f3a9c1e", now).isValid
        /\ resetPassword(users, users[i].resetKey.value, PwStrong, PwStrongSp,
                          "5f3a9c1e", now).isValid

\* C9: a successful resetPassword stores the salted hash of the new password
\* and removes the resetKey of the user; from then on getUserByResetKey,
\* GET /update-password and resetPassword reject the value of the key, at any
\* time
C9_ResetKeySingleUse ==
    /\ \A i \in 1..Len(users), newPassword \in Passwords,
          confirmedPassword \in Passwords, salt \in Salts :
           LET resetResult == resetPassword(users, users[i].resetKey.value, newPassword,
                                            confirmedPassword, salt, now)
           IN  (users[i].resetKey # NoKey /\ resetResult.isValid) =>
                   resetResult.users =
                       [users EXCEPT ![i].password =
                                         [salt |-> salt, hash |-> <<salt, newPassword>>],
                                     ![i].resetKey = NoKey]
    /\ \A resetKey \in usedResetKeys :
           /\ getUserByResetKey(users, resetKey, now) = Null
           /\ get_update_password(resetKey)
                  = Answer(redirect("/update-password", MsgBadResetKey, "error"))
           /\ \A newPassword \in Passwords, confirmedPassword \in Passwords,
                 salt \in Salts :
                  LET resetResult == resetPassword(users, resetKey, newPassword,
                                                   confirmedPassword, salt, now)
                  IN  /\ ~resetResult.isValid
                      /\ resetResult.users = users
                      /\ resetResult.message
                             \in {MsgWeakPassword, MsgMismatch, MsgBadResetKey}
                      /\ resetResult.message = MsgBadResetKey
                             <=> (/\ validatePassword(newPassword)
                                  /\ trim(newPassword) = trim(confirmedPassword))

\* a password has been reset with a key whose five minutes have not elapsed
C9_Witness ==
    /\ now = 0
    /\ usedResetKeys # {}
    /\ \E i \in 1..Len(users) : users[i].resetKey = NoKey

\* the messages with which POST /sign-up rejects a form
SignUpRejections ==
    {MsgBadEmail, MsgWeakPassword, MsgMismatch, MsgUsernameTaken, MsgNoKnown,
     MsgNoLearning, MsgBadFileType, MsgFileTooLarge}

\* C10: once a user with username U and email E is stored, a POST /sign-up
\* with username U or with email E is answered with a redirect to /sign-up
\* that carries the message of the check that rejects it, and stores no
\* user: for email E the message of the email check, for username U with
\* another email the message of the first failing check, which is the one of
\* the username check when the email, the password and the confirmation pass
C10_SignUpUniqueness ==
    \A i \in 1..Len(users) :
        \A username \in Usernames, email \in Emails, password \in SignUpPasswords,
           confirmedPassword \in Passwords, knownLanguagesArray \in LanguageArrays,
           learningLanguagesArray \in LanguageArrays, profilePicture \in Pictures,
           salt \in Salts, mailOk \in BOOLEAN :
            (username = users[i].username \/ email = users[i].email) =>
                LET outcome == post_sign_up(username, email, password,
                                   confirmedPassword, knownLanguagesArray,
                                   learningLanguagesArray, profilePicture, salt, mailOk)
                IN  /\ NoEffect(outcome)
                    /\ outcome.res.status = "redirect"
                    /\ outcome.res.to = "/sign-up"
                    /\ outcome.res.message \in SignUpRejections
                    /\ email = users[i].email => outcome.res.message = MsgBadEmail
                    /\ (/\ email \notin {users[j].email : j \in 1..Len(users)}
                        /\ emailRegex(email)
                        /\ validatePassword(password)
                        /\ trim(confirmedPassword) = trim(password))
                           => outcome.res.message = MsgUsernameTaken

\* a user is stored, and a complete form with the username of that user and
\* a free email is rejected for the username
C10_Witness ==
    \E i \in 1..Len(users), email \in Emails :
        /\ email \notin {users[j].email : j \in 1..Len(users)}
        /\ post_sign_up(users[i].username, email, PwStrong, PwStrong,
                         <<"English">>, <<"English">>, PicturePng, "5f3a9c1e",
                         TRUE).res.message = MsgUsernameTaken

\* the stored message at position i goes from the one user to the other
IsFromTo(i, from, to) ==
    messages[i].senderId = from /\ messages[i].receiverId = to

\* the stored message at position i belongs to the conversation of the two
Between(i, a, b) == IsFromTo(i, a, b) \/ IsFromTo(i, b, a)

\* the stored messages are in the order of their timestamps: some message
\* from b to a directly follows, within the conversation of the two, a
\* message from a to b
RepliedTo(a, b) ==
    \E j \in {k \in 1..Len(messages) : IsFromTo(k, b, a)} :
        \E i \in 1..(j - 1) :
            /\ IsFromTo(i, a, b)
            /\ \A k \in (i + 1)..(j - 1) : ~Between(k, a, b)

\* C11: the rule of "First Conversation" evaluated for user A against user B
\* is true exactly when the conversation of the two, oldest message first,
\* holds a message from A to B directly followed by a message from B to A; it
\* is true for the conversation [A->B, B->A] and false while the conversation
\* of two users holds only messages from A to B
C11_FirstConversationRule ==
    \A a \in 1..MaxUsers, b \in 1..MaxUsers :
        LET rule == hasReceivedReply(messages, a, b)
            between == {i \in 1..Len(messages) : Between(i, a, b)}
        IN  /\ ~rule.throws
            /\ rule.value <=> RepliedTo(a, b)
            /\ (/\ a # b
                /\ Cardinality(between) = 2
                /\ IsFromTo(Min(between), a, b)
                /\ IsFromTo(Max(between), b, a)) => rule.value
            /\ (a # b /\ \A i \in between : IsFromTo(i, a, b)) => ~rule.value

\* alice wrote to bob, bob answered, and these are all their messages
C11_Witness ==
    /\ Len(messages) = 2
    /\ IsFromTo(1, 1, 2)
    /\ IsFromTo(2, 2, 1)
    /\ hasReceivedReply(messages, 1, 2).value
    /\ ~hasReceivedReply(messages, 2, 1).value

\* the user holds a badge of this name
HoldsBadge(userId, name) ==
    \E j \in 1..Len(users[userId].badges) : users[userId].badges[j].name = name

\* the conversation of two users is one message of a and then one of b
OneReply(a, b) ==
    LET between == {i \in 1..Len(messages) : Between(i, a, b)}
    IN  /\ a # b
        /\ Cardinality(between) = 2
        /\ IsFromTo(Min(between), a, b)
        /\ IsFromTo(Max(between), b, a)

\* C12 as stated: with "First Conversation" in the catalog, once alice has
\* sent one message to bob and bob one reply to alice through POST
\* /conversation, both of them hold the "First Conversation" badge
C12_BothHoldBadge ==
    \A a \in 1..MaxUsers, b \in 1..MaxUsers :
        OneReply(a, b) =>
            /\ HoldsBadge(a, "First Conversation")
            /\ HoldsBadge(b, "First Conversation")

\* C12, amended: once alice has sent one message to bob and bob one reply to
\* alice through POST /conversation, alice holds the "First Conversation"
\* badge, and bob holds it only if a message of his own has been replied to
\* in another conversation
C12_WriterHoldsBadge ==
    \A a \in 1..MaxUsers, b \in 1..MaxUsers :
        OneReply(a, b) =>
            /\ HoldsBadge(a, "First Conversation")
            /\ HoldsBadge(b, "First Conversation") =>
                   \E c \in (1..MaxUsers) \ {a} : RepliedTo(b, c)

\* bob has replied to the one message of alice: she holds the badge, he does not
C12_Witness ==
    /\ OneReply(1, 2)
    /\ HoldsBadge(1, "First Conversation")
    /\ ~HoldsBadge(2, "First Conversation")

\* the number of stored messages this user has sent
SentCount(userId) ==
    Cardinality({i \in 1..Len(messages) : messages[i].senderId = userId})

\* the number of badges of this name in the list of the user
BadgeCopies(us, userId, name) ==
    Cardinality({j \in 1..Len(us[userId].badges) : us[userId].badges[j].name = name})

\* C13: awardBadge for a user adds the "100 Messages Sent" badge exactly when
\* the user has sent at least 100 of the stored messages and does not hold the
\* badge yet; a user with 99 sent messages or fewer does not hold it, and
\* after the request that stores the hundredth message the user holds it
C13_HundredMessages ==
    \A senderId \in 1..MaxUsers, receiverId \in 1..MaxUsers :
        LET evaluated == business_awardBadge(users, messages, badges, senderId, receiverId)
            before == BadgeCopies(users, senderId, "100 Messages Sent")
            after == BadgeCopies(evaluated.users, senderId, "100 Messages Sent")
        IN  /\ ~evaluated.throws
            /\ after - before =
                   (IF SentCount(senderId) >= 100 /\ before = 0 THEN 1 ELSE 0)
            /\ SentCount(senderId) <= 99 => before = 0
            /\ SentCount(senderId) >= 100 => before >= 1

\* alice has just sent her hundredth message and holds the badge
C13_Witness ==
    /\ SentCount(1) = 100
    /\ BadgeCopies(users, 1, "100 Messages Sent") = 1

\* C14: with the award evaluations run one after another, as the requests
\* are, no list of badges holds two badges of one name, however many messages
\* and evaluations follow for which the rule of a badge the user holds is
\* still true; one more evaluation adds no second copy either
C14_NoDuplicateBadge ==
    \A userId \in 1..Len(users), k \in 1..Len(badges) :
        /\ BadgeCopies(users, userId, badges[k].name) <= 1
        /\ \A other \in 1..MaxUsers :
               LET evaluated == business_awardBadge(users, messages, badges, userId, other)
               IN  BadgeCopies(evaluated.users, userId, badges[k].name) <= 1

\* alice holds the badge of a hundred messages and has sent one more since,
\* after which her badges were evaluated again
C14_Witness ==
    /\ SentCount(1) > 100
    /\ HoldsBadge(1, "100 Messages Sent")
    /\ BadgeCopies(users, 1, "100 Messages Sent") = 1

\* the number of times the id occurs in the list
Occurrences(list, id) == Cardinality({i \in 1..Len(list) : list[i] = id})

\* C15: after any sequence of addContact and removeContact calls a contacts
\* list holds each id at most once; adding an id the list holds leaves the
\* list as it is, adding another appends it once; removing an id the list
\* does not hold leaves the list as it is and is answered like any removal,
\* removing a member leaves no occurrence
C15_ContactSet ==
    \A userId \in 1..Len(users), contactId \in IdInputs :
        LET contacts == users[userId].contacts
            added == addContact(users, userId, contactId)
            removed == removeContact(users, userId, contactId)
        IN  /\ Occurrences(contacts, contactId) <= 1
            /\ Occurrences(added[userId].contacts, contactId) = 1
            /\ Occurrences(removed[userId].contacts, contactId) = 0
            /\ Occurrences(contacts, contactId) = 1 => added = users
            /\ Occurrences(contacts, contactId) = 0 => removed = users
            /\ \A cookie \in UuidInputs :
                   \A i \in LiveSessions(cookie) :
                       sessions[i].data.userId = userId =>
                           LET outcome == post_remove_contact(cookie, contactId)
                           IN  /\ outcome.users = removed
                               /\ outcome.res.status = "redirect"
                               /\ outcome.res.to = "/my-contacts"
                               /\ outcome.res.type = "success"
                               /\ get_add_contact(cookie, contactId).users = added

\* alice, logged in, has added bob and herself; bob has no contact to remove
C15_Witness ==
    /\ Len(users[1].contacts) = 2
    /\ users[2].contacts = <<>>
    /\ \E cookie \in UuidInputs : \E i \in LiveSessions(cookie) : sessions[i].data.userId = 1

\* the sessionKey cookies that resolve to a live session of this user
CookiesOf(userId) ==
    {cookie \in UuidInputs :
        \E i \in LiveSessions(cookie) : sessions[i].data.userId = userId}

\* C16: while user B has A in B's blockedContacts, a GET /add-contact/B of A
\* is rejected and B is not added to the contacts of A, whatever the list of
\* A held before
C16_BlockPrecedence ==
    \A a \in 1..Len(users), b \in 1..Len(users) :
        (a # b /\ Occurrences(users[b].blockedContacts, a) > 0) =>
            \A cookie \in CookiesOf(a) :
                LET outcome == get_add_contact(cookie, b)
                IN  /\ outcome.users[a].contacts = users[a].contacts
                    /\ outcome.res.type # "success"

\* C17: while user B has A in B's blockedContacts, no POST /conversation/B of
\* A stores a message from A to B
C17_BlockedCannotWrite ==
    \A a \in 1..Len(users), b \in 1..Len(users) :
        (a # b /\ Occurrences(users[b].blockedContacts, a) > 0) =>
            \A cookie \in CookiesOf(a), csrfToken \in UuidInputs :
                post_conversation(cookie, b, csrfToken).messages = messages

\* C18: no contacts list and no blockedContacts list holds the id of its own
\* user, also after GET /add-contact/:contactId or GET /block-contact/:contactId
\* with the id of the requester
C18_NoSelfReference ==
    \A userId \in 1..Len(users) :
        /\ Occurrences(users[userId].contacts, userId) = 0
        /\ Occurrences(users[userId].blockedContacts, userId) = 0

\* C19: after POST /unblock-contact/:contactId of a logged-in user the id is
\* not in the blockedContacts of the user, and the answer is the success
\* redirect to /blocked-contacts
C19_Unblock ==
    \A userId \in 1..Len(users), contactId \in ContactIdInputs :
        \A cookie \in CookiesOf(userId) :
            LET outcome == post_unblock_contact(cookie, contactId)
            IN  /\ Occurrences(outcome.users[userId].blockedContacts, contactId) = 0
                /\ outcome.res.status = "redirect"
                /\ outcome.res.to = "/blocked-contacts"
                /\ outcome.res.type = "success"

\* C20: a GET /logout with a sessionKey cookie, be the session it names
\* valid, expired or not stored, leaves no session document with this key,
\* clears the cookie and redirects to /login
C20_LogoutClears ==
    \A cookie \in UuidInputs \ {Undefined} :
        LET outcome == get_logout(cookie)
        IN  /\ \A i \in 1..Len(outcome.sessions) : outcome.sessions[i].sessionKey # cookie
            /\ outcome.res.clearCookie
            /\ outcome.res.status = "redirect"
            /\ outcome.res.to = "/login"

\* C21: for a verified user whose stored password is the salted hash of P,
\* checkLogin with the email of the user and P succeeds with the id of the
\* user, and with any other password Q it fails with the message of invalid
\* credentials (the digest being injective in salt and password)
C21_CredentialRoundTrip ==
    \A i \in 1..Len(users), P \in Passwords, Q \in Passwords :
        (users[i].isVerified /\ IsPasswordOf(i, P)) =>
            LET right == checkLogin(users, users[i].email, P)
                wrong == checkLogin(users, users[i].email, Q)
            IN  /\ right.isValid
                /\ right.userId = i
                /\ right.message = MsgLoginOk
                /\ Q # P => /\ ~wrong.isValid
                            /\ wrong.message = MsgInvalidLogin
                            /\ wrong.userId = Undefined

\* a verified user has logged in with the password of the sign-up
C21_Witness ==
    \E i \in 1..Len(users) :
        /\ users[i].isVerified
        /\ IsPasswordOf(i, PwStrong)
        /\ users[i].password = createSaltedHash(users[i].password.salt, PwStrong)
        /\ \E s \in 1..Len(sessions) : sessions[s].data.userId = i

\* C22: a mail relay that rejects the mail or cannot be reached does not
\* block the request: POST /sign-up and POST /reset-password answer with the
\* redirect, of type success, they give when the mail is sent
C22_MailFailureNotBlocking ==
    /\ \A email \in Emails :
           LET sent == post_reset_password(email, TRUE)
               failed == post_reset_password(email, FALSE)
           IN  sent.res.type = "success" =>
                   failed.res.type = "success" /\ failed.res = sent.res
    /\ \A username \in Usernames, email \in Emails, password \in SignUpPasswords :
           \A profilePicture \in Pictures, salt \in Salts :
               LET english == <<"English">>
                   sent == post_sign_up(username, email, password, password, english,
                                        english, profilePicture, salt, TRUE)
                   failed == post_sign_up(username, email, password, password, english,
                                          english, profilePicture, salt, FALSE)
               IN  sent.res.type = "success" =>
                       failed.res.type = "success" /\ failed.res = sent.res

\* the checks of a sign-up form in the order of the claim: whether the form
\* fails the check, and the message of the check
SignUpChecks(username, email, password, confirmedPassword, known, learning, picture) ==
    << [fails |-> ~emailRegex(email) \/ \E i \in 1..Len(users) : users[i].email = email,
        message |-> MsgBadEmail],
       [fails |-> ~validatePassword(password), message |-> MsgWeakPassword],
       [fails |-> trim(confirmedPassword) # trim(password), message |-> MsgMismatch],
       [fails |-> \E i \in 1..Len(users) : users[i].username = username,
        message |-> MsgUsernameTaken],
       [fails |-> Len(known) = 0, message |-> MsgNoKnown],
       [fails |-> Len(learning) = 0, message |-> MsgNoLearning],
       [fails |-> picture.present /\ picture.mimetype # "image/png",
        message |-> MsgBadFileType] >>

\* C23: POST /sign-up checks, in this order, the email, the strength of the
\* password, the confirmation, the username, the known languages, the
\* learning languages and the profile picture; a form that fails several
\* checks is answered with the message of the first of them only, and a form
\* that fails any creates no user, stores no file and produces no
\* verification key
C23_SignUpFailFast ==
    \A username \in Usernames, email \in Emails, password \in SignUpPasswords,
       confirmedPassword \in Passwords, knownLanguagesArray \in LanguageArrays,
       learningLanguagesArray \in LanguageArrays, profilePicture \in Pictures,
       salt \in Salts, mailOk \in BOOLEAN :
        LET checks == SignUpChecks(username, email, password, confirmedPassword,
                          knownLanguagesArray, learningLanguagesArray, profilePicture)
            failing == {k \in 1..Len(checks) : checks[k].fails}
            outcome == post_sign_up(username, email, password, confirmedPassword,
                           knownLanguagesArray, learningLanguagesArray, profilePicture,
                           salt, mailOk)
        IN  IF failing = {}
            THEN Len(outcome.users) = Len(users) + 1
            ELSE /\ outcome.res.status = "redirect"
                 /\ outcome.res.to = "/sign-up"
                 /\ outcome.res.message = checks[Min(failing)].message
                 /\ NoEffect(outcome)
                 /\ outcome.uuidCount = uuidCount
                 /\ ~outcome.res.fileStored

\* a user is stored, and a form with the username of that user, a free email,
\* a weak password and no language fails four checks and is answered for the
\* password
C23_Witness ==
    \E i \in 1..Len(users), email \in Emails :
        /\ validateEmail(users, email)
        /\ post_sign_up(users[i].username, email, PwWeak, PwStrong, <<>>, <<>>,
                         PictureGif, "5f3a9c1e", TRUE).res.message = MsgWeakPassword

\* passwords that meet the five conditions, and passwords that miss one
PasswordCases ==
    {PwStrong, PwStrongSp, PwWeak, PwNewline,
     <<"A", "b", "c", "d", "e", "1", "!">>,
     <<"A", "b", "c", "d", "e", "f", "g", "!">>,
     <<"A", "b", "c", "d", "e", "f", "1", "2">>,
     <<"a", "b", "c", "d", "e", "f", "1", "!">>,
     <<"A", "B", "C", "D", "E", "F", "1", "!">>}

\* the five conditions on a password
MeetsFiveConditions(password) ==
    /\ Len(password) >= 8
    /\ \E i \in 1..Len(password) : password[i] \in Digits
    /\ \E i \in 1..Len(password) : password[i] \in SpecialChars
    /\ \E i \in 1..Len(password) : password[i] \in UpperCase
    /\ \E i \in 1..Len(password) : password[i] \in LowerCase

\* C24: validatePassword accepts a password exactly when it has at least 8
\* characters and holds a digit, a character of the special set, an uppercase
\* letter and a lowercase letter; POST /sign-up with an email that passes
\* rejects the password as weak exactly when it misses one of the five
C24_PasswordStrength ==
    \A password \in PasswordCases :
        /\ validatePassword(password) <=> MeetsFiveConditions(password)
        /\ \A email \in Emails, username \in Usernames :
               validateEmail(users, email) =>
                   LET outcome == post_sign_up(username, email, password, password,
                                      <<"English">>, <<"English">>, NoPicture,
                                      "5f3a9c1e", TRUE)
                   IN  outcome.res.message = MsgWeakPassword <=>
                           ~MeetsFiveConditions(password)

\* the two lists of languages have an element in common
Intersects(a, b) == {a[i] : i \in 1..Len(a)} \cap {b[i] : i \in 1..Len(b)} # {}

\* C25: getMatchingUsers(u) gives exactly the users other than u whose
\* knownLanguages has an element in common with the learningLanguages of u,
\* each once; u is never in the result, also when the knownLanguages of u
\* intersect the learningLanguages of u; GET /dashboard renders this result
C25_Matching ==
    \A u \in 1..Len(users) :
        LET matching == getMatchingUsers(users, u)
            expected == {v \in (1..Len(users)) \ {u} :
                            Intersects(users[v].knownLanguages, users[u].learningLanguages)}
        IN  /\ matching.some
            /\ {matching.list[i] : i \in 1..Len(matching.list)} = expected
            /\ Len(matching.list) = Cardinality(expected)
            /\ \A cookie \in CookiesOf(u) :
                   LET outcome == get_dashboard(cookie)
                   IN  /\ outcome.res.status = "render"
                       /\ outcome.res.matchingUsers = matching.list
                       /\ NoEffect(outcome)

\* alice, logged in, speaks a language she also learns; bob speaks a language
\* she learns and is her only match
C25_Witness ==
    /\ Len(users) = 2
    /\ Intersects(users[1].knownLanguages, users[1].learningLanguages)
    /\ Intersects(users[2].knownLanguages, users[1].learningLanguages)
    /\ CookiesOf(1) # {}
    /\ get_dashboard(CHOOSE cookie \in CookiesOf(1) : TRUE).res.matchingUsers = <<2>>

\* the handler leaves isVerified of every stored user as it is, and a user
\* it creates is not verified
KeepsVerified(outcome) ==
    /\ Len(outcome.users) >= Len(users)
    /\ \A i \in 1..Len(users) : outcome.users[i].isVerified = users[i].isVerified
    /\ \A i \in (Len(users) + 1)..Len(outcome.users) : ~outcome.users[i].isVerified

\* C26: a user is created with isVerified false; isVerified changes only from
\* false to true, and only by GET /verify-email with the unexpired
\* verification key of that user; sign-up, login, password reset, contact,
\* block, message, badge and logout requests leave isVerified of every user
\* as it is
C26_IsVerifiedLifecycle ==
    /\ \A key \in UuidInputs :
           LET outcome == get_verify_email(key)
           IN  /\ Len(outcome.users) = Len(users)
               /\ \A i \in 1..Len(users) :
                      outcome.users[i].isVerified # users[i].isVerified =>
                          /\ ~users[i].isVerified
                          /\ outcome.users[i].isVerified
                          /\ key # Undefined
                          /\ users[i].verificationKey.value = key
                          /\ users[i].verificationKey.expiry > now
    /\ \A username \in Usernames, email \in Emails, password \in SignUpPasswords :
           \A languages \in LanguageArrays, mailOk \in BOOLEAN :
               KeepsVerified(post_sign_up(username, email, password, password, languages,
                                          languages, NoPicture, "5f3a9c1e", mailOk))
    /\ \A email \in Emails, password \in Passwords :
           /\ KeepsVerified(post_login(email, password))
           /\ KeepsVerified(post_reset_password(email, TRUE))
    /\ \A resetKey \in UuidInputs, password \in Passwords :
           /\ KeepsVerified(get_update_password(resetKey))
           /\ KeepsVerified(post_update_password(resetKey, password, password, "5f3a9c1e"))
    /\ \A cookie \in UuidInputs :
           /\ KeepsVerified(get_dashboard(cookie))
           /\ KeepsVerified(get_badges(cookie))
           /\ KeepsVerified(get_logout(cookie))
           /\ \A id \in IdInputs :
                  /\ KeepsVerified(get_add_contact(cookie, id))
                  /\ KeepsVerified(post_remove_contact(cookie, id))
                  /\ KeepsVerified(get_block_contact(cookie, id))
                  /\ KeepsVerified(post_unblock_contact(cookie, id))
                  /\ KeepsVerified(get_conversation(cookie, id))
                  /\ \A csrfToken \in UuidInputs :
                         KeepsVerified(post_conversation(cookie, id, csrfToken))

\* next to alice, verified and logged in, bob has signed up, has been verified
\* by his link and has asked for a password reset
C26_Witness ==
    /\ Len(users) = 2
    /\ users[1].isVerified /\ CookiesOf(1) # {}
    /\ users[2].isVerified
    /\ users[2].verificationKey = NoKey
    /\ users[2].resetKey # NoKey

\* C27: in every state the interleaved registrations reach, no two user
\* documents have the same username and no two have the same email
C27_UniqueUnderInterleaving ==
    \A i, j \in 1..Len(users) :
        i # j => /\ users[i].username # users[j].username
                 /\ users[i].email # users[j].email

\* a request that has read the badges of the user, found the badge missing
\* and its rule met, and waits to append the badge
AboutToAward(i, userId, name) ==
    /\ pending[i].at = "awardBadge"
    /\ (IF pending[i].call = 1 THEN pending[i].senderId ELSE pending[i].receiverId) = userId
    /\ getAllBadges(badges)[pending[i].k].name = name

\* C28: when two award evaluations for the same user and the same badge have
\* both read the user's badges before either appends, their two appends leave
\* the user with two more entries of that name, and so with a duplicate
C28_AwardRace ==
    \A i, j \in 1..Len(pending) : \A userId \in 1..Len(users), k \in 1..Len(badges) :
        LET badge == getAllBadges(badges)[k]
            both == persistence_awardBadge(persistence_awardBadge(users, userId, badge),
                                           userId, badge)
        IN  i # j /\ AboutToAward(i, userId, badge.name) /\ AboutToAward(j, userId, badge.name)
            => BadgeCopies(both, userId, badge.name) = BadgeCopies(users, userId, badge.name) + 2

\* both requests have been answered and alice holds the badge twice
C28_Witness ==
    /\ pending = <<>>
    /\ BadgeCopies(users, 1, "100 Messages Sent") = 2


\* C29: after cancelToken on a valid session that holds a token, the stored
\* data of the session has no csrfToken, and the check of POST /conversation
\* finds the token issued before different from the stored one
C29_CancelRemovesToken ==
    \A key \in UuidInputs :
        LET sessionData == getSession(sessions, key, now)
            after == getSession(cancelToken(sessions, key, now).sessions, key, now)
        IN  sessionData.some /\ sessionData.data.csrfToken # Undefined
            => /\ after.some
               /\ after.data.csrfToken = Undefined
               /\ after.data.csrfToken # sessionData.data.csrfToken

\* C30: generateFormToken on a valid session, with token T, leaves the
\* session stored under the key with csrfToken T and with the userId, the
\* sessionKey and the expiry it had, and leaves every other session as it was
C30_GenerateToken ==
    \A key \in UuidInputs, T \in 1..MaxUuid :
        LET i == findOne(sessions, <<"sessionKey">>, key)
            generated == generateFormToken(sessions, key, T, now)
        IN  getSession(sessions, key, now).some
            => /\ ~generated.throws
               /\ Len(generated.sessions) = Len(sessions)
               /\ generated.sessions[i].data.csrfToken = T
               /\ generated.sessions[i].data.userId = sessions[i].data.userId
               /\ generated.sessions[i].sessionKey = sessions[i].sessionKey
               /\ generated.sessions[i].expiry = sessions[i].expiry
               /\ \A j \in 1..Len(sessions) : j # i => generated.sessions[j] = sessions[j]

\* five minutes after her login alice has been issued a token: her session
\* holds it, is still hers and still ends ten minutes after the login
C30_Witness ==
    /\ now = TickMs
    /\ sessions[1].data.csrfToken = MaxUuid
    /\ sessions[1].data.userId = 1
    /\ sessions[1].sessionKey = 1
    /\ sessions[1].expiry = 2 * TickMs

\* C31: an operation runs its query only once the connection is established
\* and the collection handles are resolved, in every interleaving of the
\* operations, and at most one client is ever created
C31_ConnectedBeforeQuery ==
    /\ \A k \in 1..Len(pending) : pending[k].at = "users.findOne" => connection.handles
    /\ connection.created <= 1

\* the users that have the email
UsersWith(email) == {i \in 1..Len(users) : users[i].email = email}

\* the answer to a login that names no account or not its password
InvalidLogin == [isValid |-> FALSE, message |-> MsgInvalidLogin, userId |-> Undefined]

\* C32, as stated: for any email and any password that is not the password
\* of an account with that email, checkLogin gives the same answer, that of
\* invalid credentials, whether nobody, a verified user or an unverified
\* user has the email
C32_SameAnswerForAll ==
    \A email \in Emails, password \in Passwords :
        (\A i \in UsersWith(email) : ~IsPasswordOf(i, password))
        => checkLogin(users, email, password) = InvalidLogin

\* C32, amended: checkLogin gives the answer of invalid credentials when
\* nobody has the email and when a verified user has it and the password is
\* not theirs; when an unverified user has it, the answer is that the email
\* is not verified, whatever the password
C32_SameAnswerUnlessUnverified ==
    \A email \in Emails, password \in Passwords :
        LET loginResult == checkLogin(users, email, password)
        IN  /\ UsersWith(email) = {} => loginResult = InvalidLogin
            /\ \A i \in UsersWith(email) :
                   /\ users[i].isVerified /\ ~IsPasswordOf(i, password)
                      => loginResult = InvalidLogin
                   /\ ~users[i].isVerified
                      => loginResult = [InvalidLogin EXCEPT !.message = MsgNotVerified]

\* a verified user and an unverified one are registered
C32_Witness ==
    \E i, j \in 1..Len(users) : users[i].isVerified /\ ~users[j].isVerified

\* C33: the redirect that answers GET /update-password with a missing,
\* unknown or expired key names a URL, /update-password with a message and
\* a type and without a key, that the server does not answer with the same
\* redirect again
C33_ResetLinkFailureEnds ==
    \A resetKey \in UuidInputs :
        LET answer == get_update_password(resetKey).res
            followed == get_update_password(Undefined).res
        IN  answer.status = "redirect" /\ answer.to = "/update-password"
            => ~ /\ followed.status = "redirect"
                 /\ followed.to = answer.to
                 /\ followed.message = answer.message
                 /\ followed.type = answer.type

\* C34: POST /conversation/:receiverId saves a message only when a token has
\* been issued to the session of the request and the request submits a
\* csrfToken equal to it
C34_NoMessageWithoutToken ==
    \A cookie \in UuidInputs, receiverId \in IdInputs, csrfToken \in UuidInputs :
        LET sessionData == getSession(sessions, cookie, now)
        IN  post_conversation(cookie, receiverId, csrfToken).messages # messages
            => /\ sessionData.some
               /\ sessionData.data.csrfToken # Undefined
               /\ csrfToken = sessionData.data.csrfToken

\* POST /conversation answered with the redirect to the login page
Rejected(res) == res.status = "redirect" /\ res.to = "/login"

\* C35: POST /conversation is accepted exactly with the cookie of a live
\* session and the token that session holds, and leaves the sessions as
\* they are; of two tokens issued to a session one after the other, the
\* session holds the second, so that the first is rejected from then on
C35_LatestTokenOnly ==
    \A cookie \in UuidInputs :
        LET sessionData == getSession(sessions, cookie, now)
        IN  /\ \A receiverId \in IdInputs, csrfToken \in UuidInputs :
                   LET posted == post_conversation(cookie, receiverId, csrfToken)
                   IN  /\ ~Rejected(posted.res)
                          <=> /\ cookie # Undefined
                              /\ sessionData.some
                              /\ csrfToken = sessionData.data.csrfToken
                       /\ posted.sessions = sessions
            /\ \A T1 \in 1..MaxUuid, T2 \in 1..MaxUuid :
                   LET first == generateFormToken(sessions, cookie, T1, now).sessions
                       second == generateFormToken(first, cookie, T2, now).sessions
                   IN  sessionData.some /\ T1 # T2
                       => /\ getSession(first, cookie, now).data.csrfToken = T1
                          /\ getSession(second, cookie, now).data.csrfToken = T2

\* alice has been issued two tokens one after the other, holds the second
\* and has sent a message
C35_Witness ==
    /\ uuidCount = 3
    /\ Len(sessions) = 1
    /\ sessions[1].data.csrfToken = 3
    /\ messages # <<>>

\* the user is verified or holds a verification key that has not expired
CanVerify(us, i, t) ==
    \/ us[i].isVerified
    \/ us[i].verificationKey # NoKey /\ us[i].verificationKey.expiry > t

\* C36: a user who is not verified can still become verified: the user holds
\* an unexpired verification key, or some request to an exposed route
\* verifies the user or issues a fresh verification key for the user
C36_CanBecomeVerified ==
    \A i \in 1..Len(users) :
        \/ CanVerify(users, i, now)
        \/ \E key \in UuidInputs : CanVerify(get_verify_email(key).users, i, now)
        \/ \E username \in Usernames, email \in Emails, password \in SignUpPasswords :
               \E languages \in LanguageArrays, picture \in Pictures, mailOk \in BOOLEAN :
                   CanVerify(post_sign_up(username, email, password, password, languages,
                                          languages, picture, "5f3a9c1e", mailOk).users, i, now)
        \/ \E email \in Emails, password \in Passwords :
               \/ CanVerify(post_login(email, password).users, i, now)
               \/ CanVerify(post_reset_password(email, TRUE).users, i, now)
        \/ \E resetKey \in UuidInputs, password \in Passwords :
               \/ CanVerify(get_update_password(resetKey).users, i, now)
               \/ CanVerify(post_update_password(resetKey, password, password,
                                                 "5f3a9c1e").users, i, now)
        \/ \E cookie \in UuidInputs, id \in IdInputs, csrfToken \in UuidInputs :
               \/ CanVerify(get_dashboard(cookie).users, i, now)
               \/ CanVerify(get_badges(cookie).users, i, now)
               \/ CanVerify(get_logout(cookie).users, i, now)
               \/ CanVerify(get_add_contact(cookie, id).users, i, now)
               \/ CanVerify(post_remove_contact(cookie, id).users, i, now)
               \/ CanVerify(get_block_contact(cookie, id).users, i, now)
               \/ CanVerify(post_unblock_contact(cookie, id).users, i, now)
               \/ CanVerify(get_conversation(cookie, id).users, i, now)
               \/ CanVerify(post_conversation(cookie, id, csrfToken).users, i, now)

\* C37: a session key that has been handed out and has no session document,
\* as after deleteSession, has none in the next state, whichever call runs
\* or goes on, so that getSession finds nothing for it ever after
C37_NoResurrection ==
    [][\A key \in 1..MaxUuid :
           key <= uuidCount /\ findOne(sessions, <<"sessionKey">>, key) = Null
           => /\ findOne(sessions', <<"sessionKey">>, key) = Null
              /\ ~getSession(sessions', key, now').some
      ]_vars

\* the session of alice has been deleted while an updateSession for its key
\* waits to write
C37_Witness ==
    /\ findOne(sessions, <<"sessionKey">>, 1) = Null
    /\ \E k \in 1..Len(pending) :
           pending[k].key = 1 /\ pending[k].at = "sessions.updateOne"

\* C38: POST /sign-up answers with the success redirect only if a user
\* document with the username and the email of the form is in the store
\* afterwards, also when the store rejects the insert
C38_SuccessImpliesStored ==
    \A username \in Usernames, email \in Emails, profilePicture \in Pictures :
        \A mailOk \in BOOLEAN, insertOk \in BOOLEAN :
            LET outcome == post_sign_up_storage(username, email, PwStrong, PwStrong,
                                                <<"English">>, <<"English">>,
                                                profilePicture, "5f3a9c1e", mailOk, insertOk)
            IN  outcome.res.type = "success"
                => \E i \in 1..Len(outcome.users) :
                       /\ outcome.users[i].username = username
                       /\ outcome.users[i].email = email

\* C39: the userId of every session is the id of a user who exists and is
\* verified, and a step leaves the userId of every session it keeps as it was
C39_SessionsOfVerifiedUsers ==
    [][/\ \A i \in 1..Len(sessions') :
              /\ sessions'[i].data.userId \in 1..Len(users')
              /\ users'[sessions'[i].data.userId].isVerified
       /\ \A i \in 1..Len(sessions), j \in 1..Len(sessions') :
              sessions'[j].sessionKey = sessions[i].sessionKey
              => sessions'[j].data.userId = sessions[i].data.userId
      ]_vars

\* a verified user has logged in and has then been issued a token
C39_Witness ==
    \E i \in 1..Len(sessions) :
        /\ sessions[i].data.csrfToken # Undefined
        /\ users[sessions[i].data.userId].isVerified

\* C40: when resetPassword accepts a reset key of a verified user with a new
\* password and its confirmation, checkLogin with the email of that user and
\* the confirmation succeeds afterwards, also when the two differ in the
\* whitespace around them
C40_ConfirmedPasswordWorks ==
    \A resetKey \in UuidInputs, newPassword \in Passwords, confirmedPassword \in Passwords :
        LET user == getUserByKey(users, resetKey, "reset", now)
            resetResult == resetPassword(users, resetKey, newPassword, confirmedPassword,
                                         "5f3a9c1e", now)
        IN  resetResult.isValid /\ users[user].isVerified
            => checkLogin(resetResult.users, users[user].email, confirmedPassword).isValid

====
